---- MODULE Spec2Model ----
(***************************************************************************)
(* A model of the talker-backend messaging core: the conversation          *)
(* membership service (ConversationService), the message service           *)
(* (MessageService), the presence updates of UserService/AuthService and   *)
(* the socket gateway (ChatGateway), over the tables they share.           *)
(***************************************************************************)
EXTENDS Integers, Sequences, FiniteSets, TLC

\* ------------------------------------------------------------------ bounds
NumUsers == 3      \* user ids 1..NumUsers
MaxConvs == 2      \* conversation ids handed out by the autoincrement key
MaxMsgs  == 1      \* message ids handed out by the autoincrement key
MaxIds   == 2      \* length of a participantIds array of a request
NumTasks == 2      \* request tasks running concurrently
NumConns == 2      \* socket connections ever opened
MaxGwMsgs == 3     \* message ids handed out while the gateway handlers run

Users   == 1..NumUsers
ConvIds == 1..MaxConvs
Texts   == {"hi"}
TaskIds == 1..NumTasks
ConnIds == 1..NumConns
Undefined == 0     \* JavaScript undefined (a missing field, an unset client.data.userId)

VARIABLES
  conversations,  \* table Conversation: rows [id, isGroup, lastMessageId, updatedAt]
  participants,   \* table Participant, per conversation id: its rows [userId, isAdmin]
                  \* in ascending createdAt (join) order
  messages,       \* table Message: rows [id, conversationId, userId, content, isDeleted, isRead, edited]
  nextConvId,     \* next autoincrement id of Conversation
  nextMsgId,      \* next autoincrement id of Message
  ret,            \* the last completed service call and what it returned
  task,           \* the service calls in flight, one per request task
  isOnline,       \* User.isOnline per user id
  lastSeen,       \* User.lastSeen per user id, as a logical time: the number of
                  \* status updates of the row so far
  hashedRt,       \* per user id: User.hashedRt is not null
  conn,           \* the sockets: transport state, client.data.userId, rooms, handler positions
  events          \* the events emitted through the socket server, oldest first

dbVars == <<conversations, participants, messages, nextConvId, nextMsgId>>
userVars == <<isOnline, lastSeen, hashedRt>>
gwVars == <<conn, events>>
vars == <<conversations, participants, messages, nextConvId, nextMsgId, ret, task,
          isOnline, lastSeen, hashedRt, conn, events>>

\* --------------------------------------------------------------- helpers
\* The sequences over S of length at most n (request arrays).
SeqsUpTo(S, n) == UNION {[1..k -> S] : k \in 0..n}

\* Array.prototype.filter(id => id !== x), keeping order.
RECURSIVE Filter(_, _)
Filter(s, x) ==
  IF s = <<>> THEN <<>>
  ELSE IF Head(s) = x THEN Filter(Tail(s), x)
       ELSE <<Head(s)>> \o Filter(Tail(s), x)

HasDuplicates(s) == \E i, j \in DOMAIN s : i < j /\ s[i] = s[j]

\* The rows of s other than those of user u, in order.
RECURSIVE WithoutUser(_, _)
WithoutUser(s, u) ==
  IF s = <<>> THEN <<>>
  ELSE IF Head(s).userId = u THEN WithoutUser(Tail(s), u)
       ELSE <<Head(s)>> \o WithoutUser(Tail(s), u)

\* The result record of a service call.
Result(op, a, b, status, id) == [op |-> op, a |-> a, b |-> b, status |-> status, id |-> id]

\* ------------------------------------------------------- storage queries
ConvExists(c) == \E cv \in conversations : cv.id = c
ConvRow(c) == CHOOSE cv \in conversations : cv.id = c

\* participant.findUnique({ userId_conversationId }) on the rows of one
\* conversation, as a set of 0 or 1 rows.
FindParticipant(rows, u) == {rows[i] : i \in {j \in DOMAIN rows : rows[j].userId = u}}

\* ConversationService.isParticipant
IsParticipant(c, u) == FindParticipant(participants[c], u) # {}

\* A lookup that matches the pair only in the order the conversation was
\* created with (user1Id first).
ExistingPrivateOrdered(cs, ps, u1, u2) ==
  {cv \in cs : /\ ~cv.isGroup
               /\ Len(ps[cv.id]) >= 2
               /\ ps[cv.id][1].userId = u1
               /\ ps[cv.id][2].userId = u2}

\* The where clause of findFirst in findOrCreatePrivateConversation.
ExistingPrivate(cs, ps, u1, u2) ==
  {cv \in cs : /\ ~cv.isGroup
               /\ FindParticipant(ps[cv.id], u1) # {}
               /\ FindParticipant(ps[cv.id], u2) # {}}

NewConversation(id, isGroup) ==
  [id |-> id, isGroup |-> isGroup, lastMessageId |-> 0, updatedAt |-> 0]

\* A participant row that is an admin whatever was asked.
NewAdminParticipant(u, isAdmin) == [userId |-> u, isAdmin |-> TRUE]

NewParticipant(u, isAdmin) == [userId |-> u, isAdmin |-> isAdmin]

\* The rows of a nested participants.create of the users in array us, in
\* array order, the first one flagged admin iff firstAdmin.
NestedParticipants(us, firstAdmin) ==
  [i \in DOMAIN us |-> NewParticipant(us[i], firstAdmin /\ i = 1)]

\* ------------------------------------------------ ConversationService
\* findOrCreatePrivateConversation without its user1Id === user2Id check.
FindOrCreatePrivateNoSelfCheck(u1, u2) ==
  LET existing == ExistingPrivate(conversations, participants, u1, u2) IN
  IF existing # {} THEN
    /\ \E cv \in existing : ret' = Result("findOrCreatePrivate", u1, u2, "found", cv.id)
    /\ UNCHANGED dbVars
  ELSE
    /\ nextConvId <= MaxConvs
    /\ conversations' = conversations \cup {NewConversation(nextConvId, FALSE)}
    /\ participants' = [participants EXCEPT
                          ![nextConvId] = NestedParticipants(<<u1, u2>>, FALSE)]
    /\ nextConvId' = nextConvId + 1
    /\ ret' = Result("findOrCreatePrivate", u1, u2, "created", nextConvId)
    /\ UNCHANGED <<messages, nextMsgId>>

\* findOrCreatePrivateConversation(user1Id, user2Id), run alone.
FindOrCreatePrivateConversation(u1, u2) ==
  LET existing == ExistingPrivate(conversations, participants, u1, u2) IN
  IF u1 = u2 THEN
    /\ ret' = Result("findOrCreatePrivate", u1, u2, "BadRequest", 0)
    /\ UNCHANGED dbVars
  ELSE IF existing # {} THEN
    /\ \E cv \in existing : ret' = Result("findOrCreatePrivate", u1, u2, "found", cv.id)
    /\ UNCHANGED dbVars
  ELSE
    /\ nextConvId <= MaxConvs
    /\ conversations' = conversations \cup {NewConversation(nextConvId, FALSE)}
    /\ participants' = [participants EXCEPT
                          ![nextConvId] = NestedParticipants(<<u1, u2>>, FALSE)]
    /\ nextConvId' = nextConvId + 1
    /\ ret' = Result("findOrCreatePrivate", u1, u2, "created", nextConvId)
    /\ UNCHANGED <<messages, nextMsgId>>

\* createGroupConversation(name, adminId, participantIds), run alone.
CreateGroupConversation(adminId, participantIds) ==
  LET uniqueParticipants == Filter(participantIds, adminId)
      members == <<adminId>> \o uniqueParticipants IN
  IF Len(participantIds) = 0 THEN
    /\ ret' = Result("createGroup", 0, 0, "BadRequest", 0)
    /\ UNCHANGED dbVars
  ELSE IF HasDuplicates(members) THEN
    \* unique (userId, conversationId): the nested create fails as a whole
    /\ ret' = Result("createGroup", 0, 0, "Conflict", 0)
    /\ UNCHANGED dbVars
  ELSE
    /\ nextConvId <= MaxConvs
    /\ conversations' = conversations \cup {NewConversation(nextConvId, TRUE)}
    /\ participants' = [participants EXCEPT
                          ![nextConvId] = NestedParticipants(members, TRUE)]
    /\ nextConvId' = nextConvId + 1
    /\ ret' = Result("createGroup", 0, 0, "created", nextConvId)
    /\ UNCHANGED <<messages, nextMsgId>>

\* addParticipant(conversationId, targetUserId, adminId), run alone.
AddParticipant(c, targetUserId, adminId) ==
  LET requester == FindParticipant(participants[c], adminId) IN
  IF ~(ConvExists(c) /\ ConvRow(c).isGroup) THEN
    /\ ret' = Result("addParticipant", 0, 0, "BadRequest", c)
    /\ UNCHANGED dbVars
  ELSE IF ~(\E p \in requester : p.isAdmin) THEN
    /\ ret' = Result("addParticipant", 0, 0, "Forbidden", c)
    /\ UNCHANGED dbVars
  ELSE IF FindParticipant(participants[c], targetUserId) # {} THEN
    \* unique (userId, conversationId)
    /\ ret' = Result("addParticipant", 0, 0, "Conflict", c)
    /\ UNCHANGED dbVars
  ELSE
    /\ participants' = [participants EXCEPT
                          ![c] = Append(@, NewParticipant(targetUserId, FALSE))]
    /\ ret' = Result("addParticipant", 0, 0, "ok", c)
    /\ UNCHANGED <<conversations, messages, nextConvId, nextMsgId>>

\* removeParticipant that also deletes the conversation's messages.
RemoveParticipantAndMessages(c, targetUserId, requesterId) ==
  LET requester == FindParticipant(participants[c], requesterId)
      target == FindParticipant(participants[c], targetUserId)
      isLeaving == targetUserId = requesterId IN
  IF requester = {} THEN
    /\ ret' = Result("removeParticipant", 0, 0, "Forbidden", c)
    /\ UNCHANGED dbVars
  ELSE IF target = {} THEN
    /\ ret' = Result("removeParticipant", 0, 0, "NotFound", c)
    /\ UNCHANGED dbVars
  ELSE IF (\A p \in requester : ~p.isAdmin) /\ ~isLeaving THEN
    /\ ret' = Result("removeParticipant", 0, 0, "Forbidden", c)
    /\ UNCHANGED dbVars
  ELSE
    /\ participants' = [participants EXCEPT ![c] = WithoutUser(@, targetUserId)]
    /\ messages' = {m \in messages : m.conversationId # c}
    /\ ret' = Result("removeParticipant", targetUserId, requesterId, "ok", c)
    /\ UNCHANGED <<conversations, nextConvId, nextMsgId>>

\* removeParticipant(conversationId, targetUserId, requesterId), run alone.
RemoveParticipant(c, targetUserId, requesterId) ==
  LET requester == FindParticipant(participants[c], requesterId)
      target == FindParticipant(participants[c], targetUserId)
      isLeaving == targetUserId = requesterId IN
  IF requester = {} THEN
    /\ ret' = Result("removeParticipant", 0, 0, "Forbidden", c)
    /\ UNCHANGED dbVars
  ELSE IF target = {} THEN
    /\ ret' = Result("removeParticipant", 0, 0, "NotFound", c)
    /\ UNCHANGED dbVars
  ELSE IF (\A p \in requester : ~p.isAdmin) /\ ~isLeaving THEN
    /\ ret' = Result("removeParticipant", 0, 0, "Forbidden", c)
    /\ UNCHANGED dbVars
  ELSE
    /\ participants' = [participants EXCEPT ![c] = WithoutUser(@, targetUserId)]
    /\ ret' = Result("removeParticipant", targetUserId, requesterId, "ok", c)
    /\ UNCHANGED <<conversations, messages, nextConvId, nextMsgId>>

\* A rotation that promotes the oldest remaining row whoever leaves.
RotateAlways(remaining, leaverWasAdmin) ==
  [remaining EXCEPT ![1].isAdmin = TRUE]

\* The admin rotation of deleteConversation on the remaining rows (oldest
\* first): remainingParticipants[0] gets the admin flag iff the leaver held it.
Rotate(remaining, leaverWasAdmin) ==
  IF leaverWasAdmin THEN [remaining EXCEPT ![1].isAdmin = TRUE] ELSE remaining

\* deleteConversation(conversationId, userId), its transaction run alone.
DeleteConversation(c, u) ==
  LET participant == FindParticipant(participants[c], u)
      remainingParticipants == WithoutUser(participants[c], u) IN
  IF participant = {} THEN
    /\ ret' = Result("deleteConversation", 0, 0, "NotFound", c)
    /\ UNCHANGED dbVars
  ELSE IF Len(remainingParticipants) = 0 THEN
    /\ participants' = [participants EXCEPT ![c] = <<>>]
    /\ messages' = {m \in messages : m.conversationId # c}
    /\ conversations' = {cv \in conversations : cv.id # c}
    /\ ret' = Result("deleteConversation", 0, 0, "deleted", c)
    /\ UNCHANGED <<nextConvId, nextMsgId>>
  ELSE
    /\ participants' = [participants EXCEPT
                          ![c] = Rotate(remainingParticipants,
                                        \E p \in participant : p.isAdmin)]
    /\ ret' = Result("deleteConversation", 0, 0, "left", c)
    /\ UNCHANGED <<conversations, messages, nextConvId, nextMsgId>>

\* ------------------------------------------------------ MessageService
NewMessage(id, c, u, content) ==
  [id |-> id, conversationId |-> c, userId |-> u, content |-> content,
   isDeleted |-> FALSE, isRead |-> FALSE, edited |-> FALSE]

\* conversation.update that writes updatedAt and leaves lastMessageId alone.
TouchUpdatedAtOnly(cs, c, msgId) ==
  {IF cv.id = c THEN [cv EXCEPT !.updatedAt = msgId] ELSE cv : cv \in cs}

\* The conversation table after conversation.update({ updatedAt, lastMessageId }).
\* updatedAt is a logical time: the id of the message that caused the update.
TouchConversation(cs, c, msgId) ==
  {IF cv.id = c THEN [cv EXCEPT !.lastMessageId = msgId, !.updatedAt = msgId] ELSE cv
     : cv \in cs}

\* ChatGateway.handleMessage with MessageService.createMessage, run alone.
SendMessage(u, c, text) ==
  IF ~IsParticipant(c, u) THEN
    /\ ret' = Result("sendMessage", 0, 0, "error", c)
    /\ UNCHANGED dbVars
  ELSE
    /\ nextMsgId <= MaxMsgs
    /\ messages' = messages \cup {NewMessage(nextMsgId, c, u, text)}
    /\ conversations' = TouchConversation(conversations, c, nextMsgId)
    /\ nextMsgId' = nextMsgId + 1
    /\ ret' = Result("sendMessage", 0, 0, "ok", nextMsgId)
    /\ UNCHANGED <<participants, nextConvId>>

\* ------------------------------------------------------------ sequential
\* One service call at a time, each run to completion.
IdleTask ==
  [op |-> "idle", pc |-> "idle", c |-> 0, u |-> 0, u2 |-> 0, wasAdmin |-> FALSE,
   remaining |-> <<>>, del |-> FALSE, prom |-> 0, cascade |-> FALSE, status |-> "none"]

EmptyDb ==
  /\ conversations = {}
  /\ participants = [c \in ConvIds |-> <<>>]
  /\ messages = {}
  /\ nextConvId = 1
  /\ nextMsgId = 1

\* Nobody is connected: every user offline, every socket still to be opened.
NewConn ==
  [state |-> "new", token |-> "none", payloadId |-> Undefined, userId |-> Undefined,
   rooms |-> {}, hc |-> "idle", hd |-> "idle", hcAtClose |-> "idle",
   hcUser |-> [id |-> 0, isOnline |-> FALSE, lastSeen |-> 0],
   hdUser |-> [id |-> 0, isOnline |-> FALSE, lastSeen |-> 0]]

NoSockets ==
  /\ isOnline = [u \in Users |-> FALSE]
  /\ lastSeen = [u \in Users |-> 0]
  /\ hashedRt = [u \in Users |-> TRUE]
  /\ conn = [k \in ConnIds |-> NewConn]
  /\ events = <<>>

Init ==
  /\ EmptyDb
  /\ ret = Result("none", 0, 0, "none", 0)
  /\ task = [t \in TaskIds |-> IdleTask]
  /\ NoSockets

CallFindOrCreatePrivate ==
  /\ \E u1, u2 \in Users : FindOrCreatePrivateConversation(u1, u2)
  /\ UNCHANGED <<task, userVars, gwVars>>
CallCreateGroup ==
  /\ \E a \in Users : \E ids \in SeqsUpTo(Users, MaxIds) : CreateGroupConversation(a, ids)
  /\ UNCHANGED <<task, userVars, gwVars>>
CallAddParticipant ==
  /\ \E c \in ConvIds : \E t, a \in Users : AddParticipant(c, t, a)
  /\ UNCHANGED <<task, userVars, gwVars>>
CallRemoveParticipant ==
  /\ \E c \in ConvIds : \E t, r \in Users : RemoveParticipant(c, t, r)
  /\ UNCHANGED <<task, userVars, gwVars>>
CallDeleteConversation ==
  /\ \E c \in ConvIds : \E u \in Users : DeleteConversation(c, u)
  /\ UNCHANGED <<task, userVars, gwVars>>
CallSendMessage ==
  /\ \E u \in Users : \E c \in ConvIds : \E t \in Texts : SendMessage(u, c, t)
  /\ UNCHANGED <<task, userVars, gwVars>>

Next ==
  \/ CallFindOrCreatePrivate
  \/ CallCreateGroup
  \/ CallAddParticipant
  \/ CallRemoveParticipant
  \/ CallDeleteConversation
  \/ CallSendMessage

Spec == Init /\ [][Next]_vars

\* ------------------------------------------------------------ membership
\* The membership calls on existing conversations: group 1 as
\* createGroupConversation(name, a, ids) makes it, with or without a message
\* of its creator, and private conversation 2 as
\* findOrCreatePrivateConversation(u1, u2) makes it.
InitMembers ==
  /\ \E a \in Users : \E ids \in SeqsUpTo(Users, MaxIds) : \E withMessage \in BOOLEAN :
     \E u1, u2 \in Users :
       /\ Len(ids) > 0
       /\ ~HasDuplicates(<<a>> \o Filter(ids, a))
       /\ u1 # u2
       /\ conversations =
            {IF withMessage
             THEN [NewConversation(1, TRUE) EXCEPT !.lastMessageId = 1, !.updatedAt = 1]
             ELSE NewConversation(1, TRUE),
             NewConversation(2, FALSE)}
       /\ participants = [c \in ConvIds |->
                            IF c = 1 THEN NestedParticipants(<<a>> \o Filter(ids, a), TRUE)
                            ELSE IF c = 2 THEN NestedParticipants(<<u1, u2>>, FALSE)
                            ELSE <<>>]
       /\ messages = IF withMessage THEN {NewMessage(1, 1, a, "hi")} ELSE {}
       /\ nextMsgId = IF withMessage THEN 2 ELSE 1
  /\ nextConvId = 3
  /\ ret = Result("none", 0, 0, "none", 0)
  /\ task = [t \in TaskIds |-> IdleTask]
  /\ NoSockets

NextMembers ==
  \/ CallAddParticipant
  \/ CallRemoveParticipant
  \/ CallDeleteConversation

SpecMembers == InitMembers /\ [][NextMembers]_vars

\* ------------------------------------------------------------ concurrent
(***************************************************************************)
(* Request tasks interleaved at their awaits.  Storage is PostgreSQL       *)
(* behind Prisma (PrismaService builds a PrismaPg adapter over a pg Pool), *)
(* and deleteConversation opens $transaction(async tx => ...) with no      *)
(* isolationLevel option, so its statements run at the database default,   *)
(* READ COMMITTED: each statement sees what is committed when it runs plus *)
(* the transaction's own writes; a written row stays locked until the      *)
(* transaction ends, and a writer of a locked row waits and then acts on   *)
(* the row as committed.  A statement of delete/update that finds no row   *)
(* throws (P2025) and the transaction rolls back.                          *)
(***************************************************************************)
Active(t) == task[t].pc \notin {"idle", "done"}

\* The rows the transaction of task t has written and still locks.
Locks(t) ==
  IF ~Active(t) THEN {}
  ELSE (IF task[t].del THEN {<<task[t].c, task[t].u>>} ELSE {}) \cup
       (IF task[t].prom # 0 THEN {<<task[t].c, task[t].prom>>} ELSE {})

LockedByOther(t, key) == \E o \in TaskIds \ {t} : key \in Locks(o)

\* What a statement of task t's transaction reads of conversation c.
TxView(t, c) ==
  IF task[t].del /\ task[t].c = c THEN WithoutUser(participants[c], task[t].u)
  ELSE participants[c]

UserIds(rows) == [i \in DOMAIN rows |-> rows[i].userId]

SetAdmin(rows, u) ==
  [i \in DOMAIN rows |-> IF rows[i].userId = u THEN [rows[i] EXCEPT !.isAdmin = TRUE]
                         ELSE rows[i]]

Finish(t, status) == task' = [task EXCEPT ![t] = [IdleTask EXCEPT !.pc = "done",
                                                   !.op = task[t].op, !.c = task[t].c,
                                                   !.u = task[t].u, !.u2 = task[t].u2,
                                                   !.status = status]]

\* deleteConversation is called: the transaction begins.
TxBegin(t, c, u) ==
  /\ task[t].pc = "idle"
  /\ task' = [task EXCEPT ![t] = [IdleTask EXCEPT !.op = "deleteConversation",
                                                  !.pc = "find", !.c = c, !.u = u]]
  /\ UNCHANGED dbVars

\* tx.participant.findUnique: the leaver's own row, or NotFoundException.
TxFind(t) ==
  LET participant == FindParticipant(TxView(t, task[t].c), task[t].u) IN
  /\ task[t].pc = "find"
  /\ IF participant = {} THEN Finish(t, "NotFound")
     ELSE task' = [task EXCEPT ![t].pc = "delete",
                               ![t].wasAdmin = \E p \in participant : p.isAdmin]
  /\ UNCHANGED dbVars

\* tx.participant.delete of the leaver's row.
TxDelete(t) ==
  /\ task[t].pc = "delete"
  /\ ~LockedByOther(t, <<task[t].c, task[t].u>>)
  /\ IF FindParticipant(participants[task[t].c], task[t].u) = {}
     THEN Finish(t, "RolledBack")
     ELSE task' = [task EXCEPT ![t].pc = "findMany", ![t].del = TRUE]
  /\ UNCHANGED dbVars

\* tx.participant.findMany ordered by createdAt, and the branch on it.
TxFindMany(t) ==
  LET remainingParticipants == TxView(t, task[t].c) IN
  /\ task[t].pc = "findMany"
  /\ task' = [task EXCEPT
                ![t].remaining = UserIds(remainingParticipants),
                ![t].pc = IF Len(remainingParticipants) = 0 THEN "cascade"
                          ELSE IF task[t].wasAdmin THEN "promote" ELSE "commit"]
  /\ UNCHANGED dbVars

\* tx.message.deleteMany and tx.conversation.delete.
TxCascade(t) ==
  /\ task[t].pc = "cascade"
  /\ task' = [task EXCEPT ![t].pc = "commit", ![t].cascade = TRUE]
  /\ UNCHANGED dbVars

\* tx.participant.update of the newest remaining participant to admin.
TxPromoteNewest(t) ==
  LET target == task[t].remaining[Len(task[t].remaining)] IN
  /\ task[t].pc = "promote"
  /\ ~LockedByOther(t, <<task[t].c, target>>)
  /\ IF FindParticipant(participants[task[t].c], target) = {}
     THEN Finish(t, "RolledBack")
     ELSE task' = [task EXCEPT ![t].pc = "commit", ![t].prom = target]
  /\ UNCHANGED dbVars

\* tx.participant.update of remainingParticipants[0] to admin.
TxPromote(t) ==
  LET target == task[t].remaining[1] IN
  /\ task[t].pc = "promote"
  /\ ~LockedByOther(t, <<task[t].c, target>>)
  /\ IF FindParticipant(participants[task[t].c], target) = {}
     THEN Finish(t, "RolledBack")
     ELSE task' = [task EXCEPT ![t].pc = "commit", ![t].prom = target]
  /\ UNCHANGED dbVars

\* The callback returns and the transaction commits its writes.
TxCommit(t) ==
  LET c == task[t].c
      rows == WithoutUser(participants[c], task[t].u) IN
  /\ task[t].pc = "commit"
  /\ participants' = [participants EXCEPT
                        ![c] = IF task[t].prom # 0 THEN SetAdmin(rows, task[t].prom)
                               ELSE rows]
  /\ messages' = IF task[t].cascade THEN {m \in messages : m.conversationId # c}
                 ELSE messages
  /\ conversations' = IF task[t].cascade THEN {cv \in conversations : cv.id # c}
                      ELSE conversations
  /\ Finish(t, IF task[t].cascade THEN "deleted" ELSE "left")
  /\ UNCHANGED <<nextConvId, nextMsgId>>

\* findOrCreatePrivateConversation is called: the self-conversation check.
PrivateBegin(t, u1, u2) ==
  /\ task[t].pc = "idle"
  /\ IF u1 = u2
     THEN task' = [task EXCEPT ![t] = [IdleTask EXCEPT !.op = "findOrCreatePrivate",
                                         !.pc = "done", !.u = u1, !.u2 = u2,
                                         !.status = "BadRequest"]]
     ELSE task' = [task EXCEPT ![t] = [IdleTask EXCEPT !.op = "findOrCreatePrivate",
                                         !.pc = "findFirst", !.u = u1, !.u2 = u2]]
  /\ UNCHANGED dbVars

\* conversation.findFirst: an existing private conversation of the pair.
PrivateFindFirst(t) ==
  LET existing == ExistingPrivate(conversations, participants, task[t].u, task[t].u2) IN
  /\ task[t].pc = "findFirst"
  /\ IF existing # {}
     THEN \E cv \in existing :
            task' = [task EXCEPT ![t].pc = "done", ![t].status = "found", ![t].c = cv.id]
     ELSE task' = [task EXCEPT ![t].pc = "create"]
  /\ UNCHANGED dbVars

\* conversation.create with its two nested participants.
PrivateCreate(t) ==
  /\ task[t].pc = "create"
  /\ nextConvId <= MaxConvs
  /\ conversations' = conversations \cup {NewConversation(nextConvId, FALSE)}
  /\ participants' = [participants EXCEPT
                        ![nextConvId] = NestedParticipants(<<task[t].u, task[t].u2>>, FALSE)]
  /\ nextConvId' = nextConvId + 1
  /\ task' = [task EXCEPT ![t].pc = "done", ![t].status = "created", ![t].c = nextConvId]
  /\ UNCHANGED <<messages, nextMsgId>>

\* The data the concurrent tasks start from: nothing, or one group as
\* createGroupConversation(name, 1, ids) makes it, with or without a message.
GroupDb(ids, withMessage) ==
  /\ conversations =
       {IF withMessage THEN [NewConversation(1, TRUE) EXCEPT !.lastMessageId = 1, !.updatedAt = 1]
        ELSE NewConversation(1, TRUE)}
  /\ participants = [c \in ConvIds |->
                       IF c = 1 THEN NestedParticipants(<<1>> \o Filter(ids, 1), TRUE)
                       ELSE <<>>]
  /\ messages = IF withMessage THEN {NewMessage(1, 1, 1, "hi")} ELSE {}
  /\ nextConvId = 2
  /\ nextMsgId = IF withMessage THEN 2 ELSE 1

InitConc ==
  /\ \/ EmptyDb
     \/ \E ids \in {<<2>>, <<2, 3>>} : \E withMessage \in BOOLEAN : GroupDb(ids, withMessage)
  /\ ret = Result("none", 0, 0, "none", 0)
  /\ task = [t \in TaskIds |-> IdleTask]
  /\ NoSockets

DoTxBegin == (\E t \in TaskIds : \E c \in ConvIds : \E u \in Users : TxBegin(t, c, u)) /\ UNCHANGED <<ret, userVars, gwVars>>
DoTxFind == (\E t \in TaskIds : TxFind(t)) /\ UNCHANGED <<ret, userVars, gwVars>>
DoTxDelete == (\E t \in TaskIds : TxDelete(t)) /\ UNCHANGED <<ret, userVars, gwVars>>
DoTxFindMany == (\E t \in TaskIds : TxFindMany(t)) /\ UNCHANGED <<ret, userVars, gwVars>>
DoTxCascade == (\E t \in TaskIds : TxCascade(t)) /\ UNCHANGED <<ret, userVars, gwVars>>
DoTxPromote == (\E t \in TaskIds : TxPromote(t)) /\ UNCHANGED <<ret, userVars, gwVars>>
DoTxCommit == (\E t \in TaskIds : TxCommit(t)) /\ UNCHANGED <<ret, userVars, gwVars>>
DoPrivateBegin == (\E t \in TaskIds : \E u1, u2 \in Users : PrivateBegin(t, u1, u2)) /\ UNCHANGED <<ret, userVars, gwVars>>
DoPrivateFindFirst == (\E t \in TaskIds : PrivateFindFirst(t)) /\ UNCHANGED <<ret, userVars, gwVars>>
DoPrivateCreate == (\E t \in TaskIds : PrivateCreate(t)) /\ UNCHANGED <<ret, userVars, gwVars>>

NextConc ==
  \/ DoTxBegin
  \/ DoTxFind
  \/ DoTxDelete
  \/ DoTxFindMany
  \/ DoTxCascade
  \/ DoTxPromote
  \/ DoTxCommit
  \/ DoPrivateBegin
  \/ DoPrivateFindFirst
  \/ DoPrivateCreate

SpecConc == InitConc /\ [][NextConc]_vars

\* -------------------------------------------------------------- presence
(***************************************************************************)
(* ChatGateway.handleConnection and handleDisconnect, interleaved at their *)
(* awaits.  A socket is opened once with a handshake token: none, one that *)
(* verifyToken rejects, or one it accepts, whose payload carries an id or  *)
(* lacks the field (AuthService.getTokens signs { sub, email }).           *)
(***************************************************************************)
Tokens == {"none", "bad", "good"}

UserRoom(u) == <<"user_notifications", u>>
ConvRoom(c) == <<"conversation", c>>

\* server.emit('userStatusChanged', updatedUser): to every socket.
StatusEvent(updatedUser) ==
  [kind |-> "userStatusChanged", room |-> <<"all", 0>>, from |-> 0,
   to |-> {k \in ConnIds : conn[k].state = "open"}, payload |-> updatedUser]

\* client.disconnect() by the server, or the transport closing: the socket
\* leaves its rooms and handleDisconnect starts; with client.data.userId set
\* it goes on to updateStatus(userId, false).
Closed(cn) ==
  IF cn.state # "open" THEN cn
  ELSE [cn EXCEPT !.state = "closed", !.rooms = {}, !.hcAtClose = cn.hc,
                  !.hd = IF cn.userId # Undefined THEN "status" ELSE "done"]

\* UserService.updateStatus(userId, status): the row it writes and returns.
UpdatedUser(u, status) == [id |-> u, isOnline |-> status, lastSeen |-> lastSeen[u] + 1]

UpdateStatus(u, status) ==
  /\ isOnline' = [isOnline EXCEPT ![u] = status]
  /\ lastSeen' = [lastSeen EXCEPT ![u] = @ + 1]
  /\ UNCHANGED hashedRt

\* A client opens socket k: handleConnection runs up to its first await.
Connect(k, token, payloadId) ==
  /\ conn[k].state = "new"
  /\ token = "good" \/ payloadId = Undefined
  /\ conn' = [conn EXCEPT ![k] =
       IF token = "none"
       THEN [Closed([conn[k] EXCEPT !.state = "open"]) EXCEPT !.hc = "done"]
       ELSE [conn[k] EXCEPT !.state = "open", !.token = token,
                            !.payloadId = payloadId, !.hc = "verify"]]
  /\ UNCHANGED <<userVars, events>>

\* verifyToken settles and never throws: a rejected token goes on like an
\* accepted one.
VerifyAcceptsAny(k) ==
  LET userId == conn[k].payloadId
      joined == [conn[k] EXCEPT !.userId = userId, !.rooms = @ \cup {UserRoom(userId)}] IN
  /\ conn[k].hc = "verify"
  /\ conn' = [conn EXCEPT ![k] =
       IF userId = Undefined THEN [Closed(joined) EXCEPT !.hc = "done"]
       ELSE [joined EXCEPT !.hc = "status"]]
  /\ UNCHANGED <<userVars, events>>

\* verifyToken settles: the handler stores userId, joins the user's room and
\* calls updateStatus(userId.toString(), true); any throw disconnects.
Verify(k) ==
  LET userId == conn[k].payloadId
      joined == [conn[k] EXCEPT !.userId = userId, !.rooms = @ \cup {UserRoom(userId)}] IN
  /\ conn[k].hc = "verify"
  /\ conn' = [conn EXCEPT ![k] =
       IF conn[k].token = "bad" THEN [Closed(conn[k]) EXCEPT !.hc = "done"]
       ELSE IF userId = Undefined THEN [Closed(joined) EXCEPT !.hc = "done"]
       ELSE [joined EXCEPT !.hc = "status"]]
  /\ UNCHANGED <<userVars, events>>

\* The update of handleConnection reaches the database.
ConnectStatus(k) ==
  /\ conn[k].hc = "status"
  /\ UpdateStatus(conn[k].userId, TRUE)
  /\ conn' = [conn EXCEPT ![k].hc = "emit",
                          ![k].hcUser = UpdatedUser(conn[k].userId, TRUE)]
  /\ UNCHANGED events

\* handleConnection resumes: server.emit('userStatusChanged', updatedUser).
ConnectEmit(k) ==
  /\ conn[k].hc = "emit"
  /\ events' = Append(events, StatusEvent(conn[k].hcUser))
  /\ conn' = [conn EXCEPT ![k].hc = "done"]
  /\ UNCHANGED userVars

\* The client goes away: handleDisconnect runs up to its await.
Disconnect(k) ==
  /\ conn[k].state = "open"
  /\ conn' = [conn EXCEPT ![k] = Closed(conn[k])]
  /\ UNCHANGED <<userVars, events>>

\* A handleDisconnect whose update leaves the row as it is.
DisconnectStatusSkipped(k) ==
  /\ conn[k].hd = "status"
  /\ UNCHANGED <<isOnline, lastSeen, hashedRt>>
  /\ conn' = [conn EXCEPT ![k].hd = "emit",
                          ![k].hdUser = UpdatedUser(conn[k].userId, FALSE)]
  /\ UNCHANGED events

\* The update of handleDisconnect reaches the database.
DisconnectStatus(k) ==
  /\ conn[k].hd = "status"
  /\ UpdateStatus(conn[k].userId, FALSE)
  /\ conn' = [conn EXCEPT ![k].hd = "emit",
                          ![k].hdUser = UpdatedUser(conn[k].userId, FALSE)]
  /\ UNCHANGED events

\* handleDisconnect resumes: server.emit('userStatusChanged', updatedUser).
DisconnectEmit(k) ==
  /\ conn[k].hd = "emit"
  /\ events' = Append(events, StatusEvent(conn[k].hdUser))
  /\ conn' = [conn EXCEPT ![k].hd = "done"]
  /\ UNCHANGED userVars

InitPresence ==
  /\ EmptyDb
  /\ ret = Result("none", 0, 0, "none", 0)
  /\ task = [t \in TaskIds |-> IdleTask]
  /\ NoSockets

presFrame == <<dbVars, ret, task>>

DoConnect ==
  /\ \E k \in ConnIds : \E token \in Tokens : \E id \in Users \cup {Undefined} :
       Connect(k, token, id)
  /\ UNCHANGED presFrame
DoVerify == (\E k \in ConnIds : Verify(k)) /\ UNCHANGED presFrame
DoConnectStatus == (\E k \in ConnIds : ConnectStatus(k)) /\ UNCHANGED presFrame
DoConnectEmit == (\E k \in ConnIds : ConnectEmit(k)) /\ UNCHANGED presFrame
DoDisconnect == (\E k \in ConnIds : Disconnect(k)) /\ UNCHANGED presFrame
DoDisconnectStatus == (\E k \in ConnIds : DisconnectStatus(k)) /\ UNCHANGED presFrame
DoDisconnectEmit == (\E k \in ConnIds : DisconnectEmit(k)) /\ UNCHANGED presFrame

NextPresence ==
  \/ DoConnect
  \/ DoVerify
  \/ DoConnectStatus
  \/ DoConnectEmit
  \/ DoDisconnect
  \/ DoDisconnectStatus
  \/ DoDisconnectEmit

SpecPresence == InitPresence /\ [][NextPresence]_vars

\* AuthService.signin / updateRtHash: the refresh-token hash is stored.
Signin(u) ==
  /\ ~hashedRt[u]
  /\ hashedRt' = [hashedRt EXCEPT ![u] = TRUE]
  /\ UNCHANGED <<isOnline, lastSeen, gwVars>>

\* AuthService.logout: updateMany where hashedRt is not null.
Logout(u) ==
  /\ hashedRt[u]
  /\ hashedRt' = [hashedRt EXCEPT ![u] = FALSE]
  /\ isOnline' = [isOnline EXCEPT ![u] = FALSE]
  /\ UNCHANGED <<lastSeen, gwVars>>

DoSignin == (\E u \in Users : Signin(u)) /\ UNCHANGED presFrame
DoLogout == (\E u \in Users : Logout(u)) /\ UNCHANGED presFrame

\* The sockets together with the REST session calls that write User rows.
NextSession ==
  \/ NextPresence
  \/ DoSignin
  \/ DoLogout

SpecSession == InitPresence /\ [][NextSession]_vars

\* --------------------------------------------------------------- gateway
(***************************************************************************)
(* The @SubscribeMessage handlers of ChatGateway, interleaved at their     *)
(* awaits, on sockets whose handshake has completed.  A task is one        *)
(* inbound event being handled.                                            *)
(***************************************************************************)
DefaultLimit == 50
DefaultPage == 1
DeletedPlaceholder == "This message was deleted"
EditTexts == {"edited"}
MsgIds == 1..MaxGwMsgs

IdleHandler ==
  [op |-> "idle", pc |-> "idle", k |-> 0, u |-> Undefined, c |-> 0, m |-> 0,
   text |-> "", receiverId |-> Undefined, isMember |-> FALSE, saved |-> 0,
   result |-> <<>>, status |-> "none"]

\* The sockets subscribed to a room that an emit reaches; client.broadcast
\* leaves out the sending socket.
Receivers(room, except) ==
  {k \in ConnIds : conn[k].state = "open" /\ room \in conn[k].rooms /\ k # except}

\* server.to(room).emit(kind, payload), triggered by the handler of socket k.
ServerEmit(kind, room, k, payload) ==
  [kind |-> kind, room |-> room, from |-> k, to |-> Receivers(room, 0), payload |-> payload]

\* A broadcast that does not leave out the sending socket.
EmitToWholeRoom(kind, room, k, payload) ==
  [kind |-> kind, room |-> room, from |-> k, to |-> Receivers(room, 0), payload |-> payload]

\* client.broadcast.to(room).emit(kind, payload) of socket k.
BroadcastEmit(kind, room, k, payload) ==
  [kind |-> kind, room |-> room, from |-> k, to |-> Receivers(room, k), payload |-> payload]

Return(t, status) == task' = [task EXCEPT ![t].pc = "done", ![t].status = status]

\* The message row with id m, as a set of 0 or 1 rows (message.findUnique).
FindMessage(m) == {msg \in messages : msg.id = m}

\* The messages of conversation c ordered by createdAt descending (newest,
\* i.e. highest id, first).
RECURSIVE NewestFirst(_)
NewestFirst(ms) ==
  IF ms = {} THEN <<>>
  ELSE LET top == CHOOSE x \in ms : \A y \in ms : y.id <= x.id
       IN <<top>> \o NewestFirst(ms \ {top})

Min(a, b) == IF a <= b THEN a ELSE b

\* getMessagesByConversation with page counted from 0.
GetMessagesZeroIndexed(c, limit, page) ==
  LET skip == page * limit
      all == NewestFirst({msg \in messages : msg.conversationId = c})
      rows == SubSeq(all, skip + 1, Min(skip + limit, Len(all)))
  IN [i \in DOMAIN rows |->
        IF rows[i].isDeleted THEN [rows[i] EXCEPT !.content = DeletedPlaceholder]
        ELSE rows[i]]

\* MessageService.getMessagesByConversation(conversationId, limit, page).
GetMessagesByConversation(c, limit, page) ==
  LET skip == (page - 1) * limit
      all == NewestFirst({msg \in messages : msg.conversationId = c})
      rows == SubSeq(all, skip + 1, Min(skip + limit, Len(all)))
  IN [i \in DOMAIN rows |->
        IF rows[i].isDeleted THEN [rows[i] EXCEPT !.content = DeletedPlaceholder]
        ELSE rows[i]]

\* An inbound event reaches its handler, which reads client.data.userId and
\* runs up to its first await.
Receive(t, k, op, c, m, text, receiverId) ==
  /\ task[t].pc = "idle"
  /\ conn[k].state = "open"
  /\ task' = [task EXCEPT ![t] =
       [IdleHandler EXCEPT !.op = op, !.k = k, !.u = conn[k].userId, !.c = c, !.m = m,
                           !.text = text, !.receiverId = receiverId,
                           !.pc = CASE op = "sendMessage" -> "check"
                                    [] op = "joinConversation" -> "check"
                                    [] op = "messagesRead" -> "mark"
                                    [] op = "editMessage" -> "find"
                                    [] op = "deleteMessage" -> "find"]]
  /\ UNCHANGED <<dbVars, conn, events>>

\* handleMessage when the membership check passes whatever the answer.
SendCheckNoGate(t) ==
  /\ task[t].op = "sendMessage" /\ task[t].pc = "check"
  /\ task' = [task EXCEPT ![t].pc = "create", ![t].isMember = TRUE]
  /\ UNCHANGED <<dbVars, conn, events>>

\* handleMessage: isParticipant answers; a non-member gets { error }.
SendCheck(t) ==
  /\ task[t].op = "sendMessage" /\ task[t].pc = "check"
  /\ IF ~IsParticipant(task[t].c, task[t].u) THEN Return(t, "error")
     ELSE task' = [task EXCEPT ![t].pc = "create", ![t].isMember = TRUE]
  /\ UNCHANGED <<dbVars, conn, events>>

\* createMessage: message.create (its foreign key needs the conversation).
SendCreate(t) ==
  /\ task[t].op = "sendMessage" /\ task[t].pc = "create"
  /\ IF ~ConvExists(task[t].c)
     THEN Return(t, "exception") /\ UNCHANGED dbVars
     ELSE /\ nextMsgId <= MaxGwMsgs
          /\ messages' = messages \cup
                           {NewMessage(nextMsgId, task[t].c, task[t].u, task[t].text)}
          /\ nextMsgId' = nextMsgId + 1
          /\ task' = [task EXCEPT ![t].pc = "update", ![t].saved = nextMsgId]
          /\ UNCHANGED <<conversations, participants, nextConvId>>
  /\ UNCHANGED <<conn, events>>

\* createMessage: conversation.update of updatedAt and lastMessageId.
SendUpdate(t) ==
  /\ task[t].op = "sendMessage" /\ task[t].pc = "update"
  /\ IF ~ConvExists(task[t].c)
     THEN Return(t, "exception") /\ UNCHANGED dbVars
     ELSE /\ conversations' = TouchConversation(conversations, task[t].c, task[t].saved)
          /\ task' = [task EXCEPT ![t].pc = "emit"]
          /\ UNCHANGED <<participants, messages, nextConvId, nextMsgId>>
  /\ UNCHANGED <<conn, events>>

\* handleMessage resumes: receiveMessage to the room, newNotification to the
\* receiver's channel if receiverId was sent.
SendEmit(t) ==
  LET savedMessage == [id |-> task[t].saved, conversationId |-> task[t].c,
                       userId |-> task[t].u, content |-> task[t].text]
      received == ServerEmit("receiveMessage", ConvRoom(task[t].c), task[t].k, savedMessage)
      notified == ServerEmit("newNotification", UserRoom(task[t].receiverId), task[t].k,
                             [from |-> task[t].u, text |-> task[t].text,
                              conversationId |-> task[t].c])
  IN
  /\ task[t].op = "sendMessage" /\ task[t].pc = "emit"
  /\ events' = IF task[t].receiverId # Undefined THEN events \o <<received, notified>>
               ELSE Append(events, received)
  /\ Return(t, "ok")
  /\ UNCHANGED <<dbVars, conn>>

\* handleJoinRoom with the membership answer ignored: every socket joins.
JoinCheckNoGate(t) ==
  /\ task[t].op = "joinConversation" /\ task[t].pc = "check"
  /\ task' = [task EXCEPT ![t].pc = "history", ![t].isMember = TRUE]
  /\ conn' = [conn EXCEPT ![task[t].k].rooms = @ \cup {ConvRoom(task[t].c)}]
  /\ UNCHANGED <<dbVars, events>>

\* handleJoinRoom: isParticipant answers; a member's socket joins the room
\* and the history query is sent.
JoinCheck(t) ==
  /\ task[t].op = "joinConversation" /\ task[t].pc = "check"
  /\ IF ~IsParticipant(task[t].c, task[t].u)
     THEN Return(t, "error") /\ UNCHANGED conn
     ELSE /\ task' = [task EXCEPT ![t].pc = "history", ![t].isMember = TRUE]
          /\ conn' = [conn EXCEPT ![task[t].k].rooms = @ \cup {ConvRoom(task[t].c)}]
  /\ UNCHANGED <<dbVars, events>>

\* handleJoinRoom: getMessagesByConversation(conversationId) answers.
JoinHistory(t) ==
  /\ task[t].op = "joinConversation" /\ task[t].pc = "history"
  /\ task' = [task EXCEPT
                ![t].pc = "done", ![t].status = "ok",
                ![t].result = GetMessagesByConversation(task[t].c, DefaultLimit, DefaultPage)]
  /\ UNCHANGED <<dbVars, conn, events>>

\* MessageService.markAsRead: the updateMany reaches the database.
ReadMark(t) ==
  /\ task[t].op = "messagesRead" /\ task[t].pc = "mark"
  /\ messages' = {IF msg.conversationId = task[t].c /\ msg.userId # task[t].u /\ ~msg.isRead
                  THEN [msg EXCEPT !.isRead = TRUE] ELSE msg : msg \in messages}
  /\ task' = [task EXCEPT ![t].pc = "emit"]
  /\ UNCHANGED <<conversations, participants, nextConvId, nextMsgId, conn, events>>

\* handleMessagesRead resumes: messagesMarkedAsRead to the others in the room.
ReadEmit(t) ==
  /\ task[t].op = "messagesRead" /\ task[t].pc = "emit"
  /\ events' = Append(events, BroadcastEmit("messagesMarkedAsRead", ConvRoom(task[t].c),
                                            task[t].k,
                                            [conversationId |-> task[t].c, readBy |-> task[t].u]))
  /\ Return(t, "ok")
  /\ UNCHANGED <<dbVars, conn>>

\* handleTyping: no await; userTyping to the others in the room.
Typing(t, k, c, userName, isTyping) ==
  /\ task[t].pc = "idle"
  /\ conn[k].state = "open"
  /\ events' = Append(events, BroadcastEmit("userTyping", ConvRoom(c), k,
                                            [userName |-> userName, isTyping |-> isTyping]))
  /\ task' = [task EXCEPT ![t] = [IdleHandler EXCEPT !.op = "typing", !.pc = "done", !.k = k,
                                    !.u = conn[k].userId, !.c = c, !.status = "ok"]]
  /\ UNCHANGED <<dbVars, conn>>

\* message.findUnique answers and any existing message passes.
OwnerFindNoCheck(t) ==
  /\ task[t].op \in {"editMessage", "deleteMessage"} /\ task[t].pc = "find"
  /\ IF FindMessage(task[t].m) = {} THEN Return(t, "NotFound")
     ELSE task' = [task EXCEPT ![t].pc = "update"]
  /\ UNCHANGED <<dbVars, conn, events>>

\* message.findUnique answers and the handler carries on to its emit when
\* the message is missing or foreign.
OwnerFindSwallowed(t) ==
  LET message == FindMessage(task[t].m) IN
  /\ task[t].op \in {"editMessage", "deleteMessage"} /\ task[t].pc = "find"
  /\ IF message = {} THEN task' = [task EXCEPT ![t].pc = "emit"]
     ELSE IF \E msg \in message : msg.userId # task[t].u
       THEN task' = [task EXCEPT ![t].pc = "emit"]
     ELSE task' = [task EXCEPT ![t].pc = "update"]
  /\ UNCHANGED <<dbVars, conn, events>>

\* editMessage / deleteMessage of MessageService: message.findUnique
\* answers; a missing message or a foreign one throws.
OwnerFind(t) ==
  LET message == FindMessage(task[t].m) IN
  /\ task[t].op \in {"editMessage", "deleteMessage"} /\ task[t].pc = "find"
  /\ IF message = {} THEN Return(t, "NotFound")
     ELSE IF \E msg \in message : msg.userId # task[t].u THEN Return(t, "Forbidden")
     ELSE task' = [task EXCEPT ![t].pc = "update"]
  /\ UNCHANGED <<dbVars, conn, events>>

\* An edit that writes a whole fresh row: content, updatedAt and isDeleted false.
EditUpdateRestores(t) ==
  /\ task[t].op = "editMessage" /\ task[t].pc = "update"
  /\ IF FindMessage(task[t].m) = {}
     THEN Return(t, "exception") /\ UNCHANGED messages
     ELSE /\ messages' = {IF msg.id = task[t].m
                          THEN [msg EXCEPT !.content = task[t].text, !.edited = TRUE,
                                           !.isDeleted = FALSE]
                          ELSE msg : msg \in messages}
          /\ task' = [task EXCEPT ![t].pc = "emit"]
  /\ UNCHANGED <<conversations, participants, nextConvId, nextMsgId, conn, events>>

\* MessageService.editMessage: message.update of content and updatedAt.
EditUpdate(t) ==
  /\ task[t].op = "editMessage" /\ task[t].pc = "update"
  /\ IF FindMessage(task[t].m) = {}
     THEN Return(t, "exception") /\ UNCHANGED messages
     ELSE /\ messages' = {IF msg.id = task[t].m
                          THEN [msg EXCEPT !.content = task[t].text, !.edited = TRUE]
                          ELSE msg : msg \in messages}
          /\ task' = [task EXCEPT ![t].pc = "emit"]
  /\ UNCHANGED <<conversations, participants, nextConvId, nextMsgId, conn, events>>

\* A delete that also overwrites the stored content with the placeholder.
DeleteUpdateClears(t) ==
  /\ task[t].op = "deleteMessage" /\ task[t].pc = "update"
  /\ IF FindMessage(task[t].m) = {}
     THEN Return(t, "exception") /\ UNCHANGED messages
     ELSE /\ messages' = {IF msg.id = task[t].m
                          THEN [msg EXCEPT !.isDeleted = TRUE, !.content = DeletedPlaceholder]
                          ELSE msg : msg \in messages}
          /\ task' = [task EXCEPT ![t].pc = "emit"]
  /\ UNCHANGED <<conversations, participants, nextConvId, nextMsgId, conn, events>>

\* MessageService.deleteMessage: message.update of isDeleted.
DeleteUpdate(t) ==
  /\ task[t].op = "deleteMessage" /\ task[t].pc = "update"
  /\ IF FindMessage(task[t].m) = {}
     THEN Return(t, "exception") /\ UNCHANGED messages
     ELSE /\ messages' = {IF msg.id = task[t].m THEN [msg EXCEPT !.isDeleted = TRUE]
                          ELSE msg : msg \in messages}
          /\ task' = [task EXCEPT ![t].pc = "emit"]
  /\ UNCHANGED <<conversations, participants, nextConvId, nextMsgId, conn, events>>

\* handleEditMessage resumes: messageUpdated to the room named in the payload.
EditEmit(t) ==
  /\ task[t].op = "editMessage" /\ task[t].pc = "emit"
  /\ events' = Append(events, ServerEmit("messageUpdated", ConvRoom(task[t].c), task[t].k,
                                         [messageId |-> task[t].m, newText |-> task[t].text]))
  /\ Return(t, "ok")
  /\ UNCHANGED <<dbVars, conn>>

\* handleDeleteMessage resumes: messageDeleted to the room named in the payload.
DeleteEmit(t) ==
  /\ task[t].op = "deleteMessage" /\ task[t].pc = "emit"
  /\ events' = Append(events, ServerEmit("messageDeleted", ConvRoom(task[t].c), task[t].k,
                                         [messageId |-> task[t].m]))
  /\ Return(t, "ok")
  /\ UNCHANGED <<dbVars, conn>>

\* A socket after a completed handshake as user u.
Authenticated(u) ==
  [NewConn EXCEPT !.state = "open", !.token = "good", !.payloadId = u, !.userId = u,
                  !.rooms = {UserRoom(u)}, !.hc = "done",
                  !.hcUser = [id |-> u, isOnline |-> TRUE, lastSeen |-> 1]]

\* The data the handlers start from: group 1 of users 1 (admin) and 2 with
\* one message of user 1, and the private conversation 2 of users 2 and 3;
\* every socket authenticated as some user.
InitGateway ==
  /\ conversations = {[NewConversation(1, TRUE) EXCEPT !.lastMessageId = 1, !.updatedAt = 1],
                      NewConversation(2, FALSE)}
  /\ participants = [c \in ConvIds |->
                       IF c = 1 THEN NestedParticipants(<<1, 2>>, TRUE)
                       ELSE IF c = 2 THEN NestedParticipants(<<2, 3>>, FALSE)
                       ELSE <<>>]
  /\ messages = {NewMessage(1, 1, 1, "hi")}
  /\ nextConvId = 3
  /\ nextMsgId = 2
  /\ ret = Result("none", 0, 0, "none", 0)
  /\ task = [t \in TaskIds |-> IdleHandler]
  /\ \E who \in [ConnIds -> 1..3] :
       /\ conn = [k \in ConnIds |-> Authenticated(who[k])]
       /\ isOnline = [u \in Users |-> \E k \in ConnIds : who[k] = u]
       /\ lastSeen = [u \in Users |-> IF \E k \in ConnIds : who[k] = u THEN 1 ELSE 0]
  /\ hashedRt = [u \in Users |-> TRUE]
  /\ events = <<>>

gwFrame == <<ret, userVars>>

DoReceiveSend ==
  /\ \E t \in TaskIds : \E k \in ConnIds : \E c \in ConvIds : \E text \in Texts :
       \E r \in Users \cup {Undefined} : Receive(t, k, "sendMessage", c, 0, text, r)
  /\ UNCHANGED gwFrame
DoReceiveJoin ==
  /\ \E t \in TaskIds : \E k \in ConnIds : \E c \in ConvIds :
       Receive(t, k, "joinConversation", c, 0, "", Undefined)
  /\ UNCHANGED gwFrame
DoReceiveRead ==
  /\ \E t \in TaskIds : \E k \in ConnIds : \E c \in ConvIds :
       Receive(t, k, "messagesRead", c, 0, "", Undefined)
  /\ UNCHANGED gwFrame
DoReceiveEdit ==
  /\ \E t \in TaskIds : \E k \in ConnIds : \E c \in ConvIds : \E m \in MsgIds :
       \E text \in EditTexts : Receive(t, k, "editMessage", c, m, text, Undefined)
  /\ UNCHANGED gwFrame
DoReceiveDelete ==
  /\ \E t \in TaskIds : \E k \in ConnIds : \E c \in ConvIds : \E m \in MsgIds :
       Receive(t, k, "deleteMessage", c, m, "", Undefined)
  /\ UNCHANGED gwFrame
DoTyping ==
  /\ \E t \in TaskIds : \E k \in ConnIds : \E c \in ConvIds : \E name \in Users :
       \E isTyping \in BOOLEAN : Typing(t, k, c, name, isTyping)
  /\ UNCHANGED gwFrame
DoSendCheck == (\E t \in TaskIds : SendCheck(t)) /\ UNCHANGED gwFrame
DoSendCreate == (\E t \in TaskIds : SendCreate(t)) /\ UNCHANGED gwFrame
DoSendUpdate == (\E t \in TaskIds : SendUpdate(t)) /\ UNCHANGED gwFrame
DoSendEmit == (\E t \in TaskIds : SendEmit(t)) /\ UNCHANGED gwFrame
DoJoinCheck == (\E t \in TaskIds : JoinCheck(t)) /\ UNCHANGED gwFrame
DoJoinHistory == (\E t \in TaskIds : JoinHistory(t)) /\ UNCHANGED gwFrame
DoReadMark == (\E t \in TaskIds : ReadMark(t)) /\ UNCHANGED gwFrame
DoReadEmit == (\E t \in TaskIds : ReadEmit(t)) /\ UNCHANGED gwFrame
DoOwnerFind == (\E t \in TaskIds : OwnerFind(t)) /\ UNCHANGED gwFrame
DoEditUpdate == (\E t \in TaskIds : EditUpdate(t)) /\ UNCHANGED gwFrame
DoDeleteUpdate == (\E t \in TaskIds : DeleteUpdate(t)) /\ UNCHANGED gwFrame
DoEditEmit == (\E t \in TaskIds : EditEmit(t)) /\ UNCHANGED gwFrame
DoDeleteEmit == (\E t \in TaskIds : DeleteEmit(t)) /\ UNCHANGED gwFrame

NextGateway ==
  \/ DoReceiveSend
  \/ DoReceiveJoin
  \/ DoReceiveRead
  \/ DoReceiveEdit
  \/ DoReceiveDelete
  \/ DoTyping
  \/ DoSendCheck
  \/ DoSendCreate
  \/ DoSendUpdate
  \/ DoSendEmit
  \/ DoJoinCheck
  \/ DoJoinHistory
  \/ DoReadMark
  \/ DoReadEmit
  \/ DoOwnerFind
  \/ DoEditUpdate
  \/ DoDeleteUpdate
  \/ DoEditEmit
  \/ DoDeleteEmit

SpecGateway == InitGateway /\ [][NextGateway]_vars

\* A sendMessage of task t is between its dispatch and its return.
SendActive(t) == task[t].op = "sendMessage" /\ task[t].pc \notin {"idle", "done"}

\* A sendMessage arrives while no other sendMessage is being handled.
DoReceiveSendAlone == (\A t \in TaskIds : ~SendActive(t)) /\ DoReceiveSend

\* The handlers with sendMessage events arriving one at a time; every other
\* event may arrive at any moment.
NextSerialSend ==
  \/ DoReceiveSendAlone
  \/ DoReceiveJoin
  \/ DoReceiveRead
  \/ DoReceiveEdit
  \/ DoReceiveDelete
  \/ DoTyping
  \/ DoSendCheck
  \/ DoSendCreate
  \/ DoSendUpdate
  \/ DoSendEmit
  \/ DoJoinCheck
  \/ DoJoinHistory
  \/ DoReadMark
  \/ DoReadEmit
  \/ DoOwnerFind
  \/ DoEditUpdate
  \/ DoDeleteUpdate
  \/ DoEditEmit
  \/ DoDeleteEmit

SpecSerialSend == InitGateway /\ [][NextSerialSend]_vars

\* ------------------------------------------------------------- REST reads
(***************************************************************************)
(* MessageController and the conversation list of ConversationController,  *)
(* one request at a time.  ret is the response body.                        *)
(***************************************************************************)
PageLimits == {1, 2, DefaultLimit}
Pages == {1, 2}

Response(op, caller, c, status, msgs, convs) ==
  [op |-> op, caller |-> caller, c |-> c, status |-> status,
   messages |-> msgs, conversations |-> convs]

\* messages: { orderBy: { createdAt: 'desc' }, take: 1 } of conversation c.
LastMessage(c) ==
  LET all == NewestFirst({msg \in messages : msg.conversationId = c})
  IN SubSeq(all, 1, Min(1, Len(all)))

\* One element of the list: the conversation, the other participants and
\* the newest message as stored.
ConversationSummary(cv, u) ==
  [id |-> cv.id, updatedAt |-> cv.updatedAt,
   participants |-> WithoutUser(participants[cv.id], u),
   messages |-> LastMessage(cv.id)]

\* ConversationService.getUserConversations(userId): the lists the query may
\* return, newest updatedAt first (rows with equal updatedAt in either order).
GetUserConversations(u) ==
  LET mine == {ConversationSummary(cv, u) : cv \in {x \in conversations : IsParticipant(x.id, u)}}
      n == Cardinality(mine)
  IN {s \in [1..n -> mine] :
        /\ \A i, j \in 1..n : i # j => s[i] # s[j]
        /\ \A i, j \in 1..n : i < j => s[i].updatedAt >= s[j].updatedAt}

\* GET messages/:conversationId
GetMessages(u, c, limit, page) ==
  /\ ret' = Response("getMessages", u, c, "ok", GetMessagesByConversation(c, limit, page), <<>>)
  /\ UNCHANGED dbVars

\* PATCH messages/:id: MessageService.editMessage
EditMessage(m, u, text) ==
  LET message == FindMessage(m)
      updated == {[msg EXCEPT !.content = text, !.edited = TRUE] : msg \in message}
  IN
  IF message = {} THEN
    /\ ret' = Response("editMessage", u, m, "NotFound", <<>>, <<>>)
    /\ UNCHANGED dbVars
  ELSE IF \E msg \in message : msg.userId # u THEN
    /\ ret' = Response("editMessage", u, m, "Forbidden", <<>>, <<>>)
    /\ UNCHANGED dbVars
  ELSE
    /\ messages' = (messages \ message) \cup updated
    /\ ret' = Response("editMessage", u, m, "ok", <<CHOOSE x \in updated : TRUE>>, <<>>)
    /\ UNCHANGED <<conversations, participants, nextConvId, nextMsgId>>

\* deleteMessage that removes the row instead of flagging it.
DeleteMessageHard(m, u) ==
  LET message == FindMessage(m) IN
  IF message = {} THEN
    /\ ret' = Response("deleteMessage", u, m, "NotFound", <<>>, <<>>)
    /\ UNCHANGED dbVars
  ELSE IF \E msg \in message : msg.userId # u THEN
    /\ ret' = Response("deleteMessage", u, m, "Forbidden", <<>>, <<>>)
    /\ UNCHANGED dbVars
  ELSE
    /\ messages' = messages \ message
    /\ ret' = Response("deleteMessage", u, m, "ok", <<CHOOSE x \in message : TRUE>>, <<>>)
    /\ UNCHANGED <<conversations, participants, nextConvId, nextMsgId>>

\* DELETE messages/:id: MessageService.deleteMessage
DeleteMessage(m, u) ==
  LET message == FindMessage(m)
      updated == {[msg EXCEPT !.isDeleted = TRUE] : msg \in message}
  IN
  IF message = {} THEN
    /\ ret' = Response("deleteMessage", u, m, "NotFound", <<>>, <<>>)
    /\ UNCHANGED dbVars
  ELSE IF \E msg \in message : msg.userId # u THEN
    /\ ret' = Response("deleteMessage", u, m, "Forbidden", <<>>, <<>>)
    /\ UNCHANGED dbVars
  ELSE
    /\ messages' = (messages \ message) \cup updated
    /\ ret' = Response("deleteMessage", u, m, "ok", <<CHOOSE x \in updated : TRUE>>, <<>>)
    /\ UNCHANGED <<conversations, participants, nextConvId, nextMsgId>>

\* markAsRead without the userId: { not: userId } filter.
MarkReadEveryone(c, u) ==
  /\ messages' = {IF msg.conversationId = c /\ ~msg.isRead
                  THEN [msg EXCEPT !.isRead = TRUE] ELSE msg : msg \in messages}
  /\ ret' = Response("markRead", u, c, "ok", <<>>, <<>>)
  /\ UNCHANGED <<conversations, participants, nextConvId, nextMsgId>>

\* PATCH messages/:conversationId/read: MessageService.markAsRead
MarkRead(c, u) ==
  /\ messages' = {IF msg.conversationId = c /\ msg.userId # u /\ ~msg.isRead
                  THEN [msg EXCEPT !.isRead = TRUE] ELSE msg : msg \in messages}
  /\ ret' = Response("markRead", u, c, "ok", <<>>, <<>>)
  /\ UNCHANGED <<conversations, participants, nextConvId, nextMsgId>>

\* GET conversations
ListUserConversations(u) ==
  /\ \E list \in GetUserConversations(u) :
       ret' = Response("getUserConversations", u, 0, "ok", <<>>, list)
  /\ UNCHANGED dbVars

\* Group 1 of users 1 (admin) and 2 holding a message of each, and the
\* private conversation 2 of users 2 and 3 holding a message of user 3.
InitRest ==
  /\ conversations = {[NewConversation(1, TRUE) EXCEPT !.lastMessageId = 2, !.updatedAt = 2],
                      [NewConversation(2, FALSE) EXCEPT !.lastMessageId = 3, !.updatedAt = 3]}
  /\ participants = [c \in ConvIds |->
                       IF c = 1 THEN NestedParticipants(<<1, 2>>, TRUE)
                       ELSE IF c = 2 THEN NestedParticipants(<<2, 3>>, FALSE)
                       ELSE <<>>]
  /\ messages = {NewMessage(1, 1, 1, "hi"), NewMessage(2, 1, 2, "hi"), NewMessage(3, 2, 3, "hi")}
  /\ nextConvId = 3
  /\ nextMsgId = 4
  /\ ret = Response("none", 0, 0, "none", <<>>, <<>>)
  /\ task = [t \in TaskIds |-> IdleHandler]
  /\ NoSockets

restFrame == <<task, userVars, gwVars>>

CallGetMessages ==
  /\ \E u \in Users : \E c \in ConvIds : \E limit \in PageLimits : \E page \in Pages :
       GetMessages(u, c, limit, page)
  /\ UNCHANGED restFrame
CallEditMessage ==
  /\ \E m \in MsgIds : \E u \in Users : \E text \in EditTexts : EditMessage(m, u, text)
  /\ UNCHANGED restFrame
CallDeleteMessage ==
  /\ \E m \in MsgIds : \E u \in Users : DeleteMessage(m, u)
  /\ UNCHANGED restFrame
CallMarkRead ==
  /\ \E c \in ConvIds : \E u \in Users : MarkRead(c, u)
  /\ UNCHANGED restFrame
CallListUserConversations ==
  /\ \E u \in Users : ListUserConversations(u)
  /\ UNCHANGED restFrame

NextRest ==
  \/ CallGetMessages
  \/ CallEditMessage
  \/ CallDeleteMessage
  \/ CallMarkRead
  \/ CallListUserConversations

SpecRest == InitRest /\ [][NextRest]_vars

\* The lifecycle handlers together with inbound events: NestJS binds the
\* @SubscribeMessage handlers to a socket when it connects and does not wait
\* for the promise of handleConnection.
InitHandshake ==
  /\ conversations = {[NewConversation(1, TRUE) EXCEPT !.lastMessageId = 1, !.updatedAt = 1],
                      NewConversation(2, FALSE)}
  /\ participants = [c \in ConvIds |->
                       IF c = 1 THEN NestedParticipants(<<1, 2>>, TRUE)
                       ELSE IF c = 2 THEN NestedParticipants(<<2, 3>>, FALSE)
                       ELSE <<>>]
  /\ messages = {NewMessage(1, 1, 1, "hi")}
  /\ nextConvId = 3
  /\ nextMsgId = 2
  /\ ret = Result("none", 0, 0, "none", 0)
  /\ task = [t \in TaskIds |-> IdleHandler]
  /\ NoSockets

\* The task slots and payloads of the inbound events sent while handshakes run.
EarlyTasks == {1}
EarlyNames == {1}

DoEarlyTyping ==
  /\ \E t \in EarlyTasks : \E k \in ConnIds : \E c \in ConvIds : \E name \in EarlyNames :
       Typing(t, k, c, name, TRUE)
  /\ UNCHANGED gwFrame

NextHandshake ==
  \/ DoConnect
  \/ DoVerify
  \/ DoConnectStatus
  \/ DoConnectEmit
  \/ DoDisconnect
  \/ DoDisconnectStatus
  \/ DoDisconnectEmit
  \/ DoEarlyTyping

SpecHandshake == InitHandshake /\ [][NextHandshake]_vars

\* The REST edits and deletes of messages, each run alone, between the
\* statements of deleteConversation transactions, on a group that holds a
\* message of its creator.
InitMessageLife ==
  /\ \E ids \in {<<2>>, <<2, 3>>} : GroupDb(ids, TRUE)
  /\ ret = Response("none", 0, 0, "none", <<>>, <<>>)
  /\ task = [t \in TaskIds |-> IdleTask]
  /\ NoSockets

NextMessageLife ==
  \/ DoTxBegin
  \/ DoTxFind
  \/ DoTxDelete
  \/ DoTxFindMany
  \/ DoTxCascade
  \/ DoTxPromote
  \/ DoTxCommit
  \/ CallEditMessage
  \/ CallDeleteMessage

SpecMessageLife == InitMessageLife /\ [][NextMessageLife]_vars

\* The sendMessage and joinConversation handlers, interleaved at their awaits,
\* while REST calls remove participants: removeParticipant and
\* deleteConversation run between any two handler steps.
\* The data of InitGateway with socket 1 authenticated as user 2 (a member of
\* both conversations) and socket 2 as user 3.
InitLeaving ==
  /\ conversations = {[NewConversation(1, TRUE) EXCEPT !.lastMessageId = 1, !.updatedAt = 1],
                      NewConversation(2, FALSE)}
  /\ participants = [c \in ConvIds |->
                       IF c = 1 THEN NestedParticipants(<<1, 2>>, TRUE)
                       ELSE IF c = 2 THEN NestedParticipants(<<2, 3>>, FALSE)
                       ELSE <<>>]
  /\ messages = {NewMessage(1, 1, 1, "hi")}
  /\ nextConvId = 3
  /\ nextMsgId = 2
  /\ ret = Result("none", 0, 0, "none", 0)
  /\ task = [t \in TaskIds |-> IdleHandler]
  /\ conn = [k \in ConnIds |-> IF k = 1 THEN Authenticated(2) ELSE Authenticated(3)]
  /\ isOnline = [u \in Users |-> u \in {2, 3}]
  /\ lastSeen = [u \in Users |-> IF u \in {2, 3} THEN 1 ELSE 0]
  /\ hashedRt = [u \in Users |-> TRUE]
  /\ events = <<>>

DoReceiveSendToRoom ==
  /\ \E t \in TaskIds : \E k \in ConnIds : \E c \in ConvIds : \E text \in Texts :
       Receive(t, k, "sendMessage", c, 0, text, Undefined)
  /\ UNCHANGED gwFrame

NextLeaving ==
  \/ DoReceiveSendToRoom
  \/ DoReceiveJoin
  \/ DoSendCheck
  \/ DoSendCreate
  \/ DoSendUpdate
  \/ DoSendEmit
  \/ DoJoinCheck
  \/ DoJoinHistory
  \/ CallRemoveParticipant
  \/ CallDeleteConversation

SpecLeaving == InitLeaving /\ [][NextLeaving]_vars

\* ------------------------------------------------------------------ claims
Admins(c) == {i \in DOMAIN participants[c] : participants[c][i].isAdmin}

Quiescent == \A t \in TaskIds : ~Active(t)

\* C1: every existing group conversation that still has a participant has
\* exactly one participant with the admin flag, after any sequence of
\* removals and additions.
C1_ExactlyOneAdmin ==
  \A cv \in conversations :
    (cv.isGroup /\ Len(participants[cv.id]) >= 1) => Cardinality(Admins(cv.id)) = 1

\* C2: once concurrent deleteConversation calls on a group have all ended,
\* the group has exactly one admin while participants remain.
C2_ConcurrentLeavesKeepOneAdmin == Quiescent => C1_ExactlyOneAdmin

\* C3: no conversation exists with an empty participant set, and no message
\* outlives its conversation's last participant.
C3_NoEmptyConversation ==
  /\ \A cv \in conversations : Len(participants[cv.id]) >= 1
  /\ \A m \in messages : Len(participants[m.conversationId]) >= 1

\* C4: at most one non-group conversation has both users of a pair among
\* its participants, also when findOrCreatePrivateConversation calls overlap.
C4_AtMostOnePrivatePerPair ==
  \A u1, u2 \in Users :
    u1 # u2 => Cardinality(ExistingPrivate(conversations, participants, u1, u2)) <= 1

\* C5: a findOrCreatePrivateConversation call that directly follows a
\* successful one for the same unordered pair returns the same conversation
\* id and creates nothing.
C5_RepeatedCallStep ==
  ( /\ ret.op = "findOrCreatePrivate"
    /\ ret.status \in {"created", "found"}
    /\ ret'.op = "findOrCreatePrivate"
    /\ {ret'.a, ret'.b} = {ret.a, ret.b} )
  => ( /\ ret'.status = "found"
       /\ ret'.id = ret.id
       /\ UNCHANGED dbVars )

C5_Idempotent == [][C5_RepeatedCallStep]_vars

\* C5 witness: a call with the pair in the other order found the
\* conversation that the first call created.
C5_Witness ==
  /\ ret.op = "findOrCreatePrivate"
  /\ ret.status = "found"
  /\ ConvExists(ret.id)
  /\ Len(participants[ret.id]) = 2
  /\ participants[ret.id][1].userId = ret.b
  /\ participants[ret.id][2].userId = ret.a

\* The isOnline values of the userStatusChanged events about user u, oldest first.
StatusEventsOf(u) ==
  LET sel == SelectSeq(events, LAMBDA e : e.kind = "userStatusChanged" /\ e.payload.id = u)
  IN [i \in DOMAIN sel |-> sel[i].payload.isOnline]

PresenceQuiescent == \A k \in ConnIds : conn[k].hc \in {"idle", "done"} /\ conn[k].hd \in {"idle", "done"}

\* Socket k is open and its handshake has authenticated it as user u.
LiveAs(k, u) == conn[k].state = "open" /\ conn[k].hc = "done" /\ conn[k].userId = u

\* C6: in every quiescent state a user with at least one live authenticated
\* connection has isOnline = TRUE: disconnecting one of several open
\* connections of a user does not set the user offline.
C6_LiveConnectionImpliesOnline ==
  PresenceQuiescent => \A u \in Users : (\E k \in ConnIds : LiveAs(k, u)) => isOnline[u]

\* C7: userStatusChanged is emitted only on a presence transition: no two
\* consecutive events about a user carry the same isOnline value.
C7_EventOnlyOnTransition ==
  \A u \in Users : \A i \in 1..(Len(StatusEventsOf(u)) - 1) :
    StatusEventsOf(u)[i] # StatusEventsOf(u)[i + 1]

\* Socket k is the only socket ever opened with a token of user u, its
\* handshake completed before it closed, and its disconnect handler has ended.
OpenedThenClosed(k, u) ==
  /\ conn[k].userId = u
  /\ conn[k].state = "closed"
  /\ conn[k].hcAtClose = "done"
  /\ conn[k].hd = "done"
  /\ \A j \in ConnIds \ {k} : conn[j].payloadId # u

\* C8: for a user who was offline and has no other connection, one
\* successful connection followed by its disconnection emits exactly one
\* userStatusChanged with isOnline true, then exactly one with isOnline
\* false, and leaves the user offline.
C8_OneOnlineThenOneOffline ==
  \A u \in Users : \A k \in ConnIds :
    OpenedThenClosed(k, u) => StatusEventsOf(u) = <<TRUE, FALSE>> /\ ~isOnline[u]

\* C8 witness: such a connection has come and gone.
C8_Witness == \E u \in Users : \E k \in ConnIds : OpenedThenClosed(k, u)

\* C9: every event delivered to a socket in a room conversation_<c> was
\* triggered by a connection whose user is a participant of conversation c;
\* a non-participant naming an arbitrary conversationId in editMessage,
\* deleteMessage, typing or messagesRead causes no event in that room.
C9_BroadcastOnlyByParticipants ==
  \A i \in DOMAIN events :
    (events[i].room[1] = "conversation" /\ events[i].to # {})
      => IsParticipant(events[i].room[2], conn[events[i].from].userId)

\* The step in which the membership check of a sendMessage of task t is
\* answered for a sender who is not a participant.
RefusedSend(t) ==
  /\ task[t].op = "sendMessage"
  /\ task[t].pc = "check"
  /\ task'[t].pc # "check"
  /\ ~IsParticipant(task[t].c, task[t].u)

C10_RefusedSendStep ==
  \A t \in TaskIds :
    /\ RefusedSend(t) =>
         /\ task'[t].pc = "done" /\ task'[t].status = "error"
         /\ UNCHANGED <<messages, conversations, nextMsgId, events, conn>>
    /\ (task[t].op = "sendMessage" /\ task[t].status = "error") => task'[t] = task[t]

\* C10: a sendMessage whose sender is not a participant of the target
\* conversation ends with the error result and does nothing else: no message
\* is saved, lastMessageId and updatedAt keep their values, nothing is
\* emitted and the connection stays open.
C10_NonParticipantSendRejected == [][C10_RefusedSendStep]_vars

\* C10 witness: a sendMessage of a non-participant has been answered with
\* the error on a connection that is still open.
C10_Witness ==
  \E t \in TaskIds :
    /\ task[t].op = "sendMessage" /\ task[t].pc = "done" /\ task[t].status = "error"
    /\ ~IsParticipant(task[t].c, task[t].u)
    /\ conn[task[t].k].state = "open"

\* The step in which message.create of task t's sendMessage is applied.
SendCreated(t) ==
  task[t].op = "sendMessage" /\ task[t].pc = "create" /\ task'[t].pc # "create"

\* The step in which task t's sendMessage emits and returns.
SendReturned(t) ==
  task[t].op = "sendMessage" /\ task[t].pc = "emit" /\ task'[t].pc # "emit"

C11_SendStep ==
  \A t \in TaskIds :
    /\ SendCreated(t) =>
         \E msg \in messages' \ messages :
           /\ messages' = messages \cup {msg}
           /\ msg.id = task'[t].saved
           /\ msg.content = task[t].text
           /\ msg.userId = task[t].u
           /\ msg.conversationId = task[t].c
    /\ SendReturned(t) =>
         /\ task'[t].status = "ok"
         /\ Len(events') > Len(events)
         /\ LET e == events'[Len(events) + 1] IN
              /\ e.kind = "receiveMessage"
              /\ e.room = ConvRoom(task[t].c)
              /\ e.payload.id = task[t].saved
              /\ e.payload.content = task[t].text
              /\ e.payload.userId = task[t].u
              /\ e.to = {k \in ConnIds : conn[k].state = "open"
                                        /\ ConvRoom(task[t].c) \in conn[k].rooms}
         /\ \A cv \in conversations' : cv.id = task[t].c => cv.lastMessageId = task[t].saved

\* C11: when a participant's sendMessage { conversationId: c, text } runs
\* with no other send alongside, exactly one message with that text and the
\* sender as author is saved in c, receiveMessage carrying it goes to every
\* socket in room conversation_c (the sender's too), and when the handler
\* returns the conversation's lastMessageId is the new message's id.
C11_SendPersistsBroadcastsAndSummarises == [][C11_SendStep]_vars

\* C11 witness: a send has returned and its receiveMessage reached the
\* sender's own subscribed socket.
C11_Witness ==
  \E t \in TaskIds : \E i \in DOMAIN events :
    /\ task[t].op = "sendMessage" /\ task[t].pc = "done" /\ task[t].status = "ok"
    /\ events[i].kind = "receiveMessage"
    /\ events[i].payload.id = task[t].saved
    /\ task[t].k \in events[i].to

\* C12: createMessage applies the message insert and the conversation
\* summary update as one unit: in no reachable state is a message recorded
\* while its conversation's lastMessageId does not yet reflect it (it names
\* that message or a later one).
C12_MessageReflectedInSummary ==
  \A msg \in messages : \A cv \in conversations :
    cv.id = msg.conversationId => cv.lastMessageId >= msg.id

\* The message rows a response carries, in its list of messages and in the
\* previews of its list of conversations.
ReturnedMessages(r) ==
  {r.messages[i] : i \in DOMAIN r.messages}
    \cup UNION {{r.conversations[i].messages[j] : j \in DOMAIN r.conversations[i].messages}
                  : i \in DOMAIN r.conversations}

\* C13: every operation that returns message content to a reader returns,
\* for a message with isDeleted = true, the placeholder "This message was
\* deleted" and never the stored content.
C13_DeletedContentNeverReturned ==
  \A msg \in ReturnedMessages(ret) : msg.isDeleted => msg.content = DeletedPlaceholder

\* The step in which message.findUnique answers task t's editMessage or
\* deleteMessage with a message written by somebody else.
ForeignMessageFound(t) ==
  /\ task[t].op \in {"editMessage", "deleteMessage"}
  /\ task[t].pc = "find"
  /\ task'[t].pc # "find"
  /\ \E msg \in messages : msg.id = task[t].m /\ msg.userId # task[t].u

C14_ForeignMessageStep ==
  \A t \in TaskIds :
    /\ ForeignMessageFound(t) =>
         /\ task'[t].pc = "done" /\ task'[t].status = "Forbidden"
         /\ UNCHANGED <<messages, events>>
    /\ (task[t].op \in {"editMessage", "deleteMessage"} /\ task[t].status = "Forbidden")
         => task'[t] = task[t]

\* C14: an editMessage or deleteMessage whose caller is not the message's
\* author fails with ForbiddenException and leaves the message's content,
\* isDeleted flag and edited timestamp as they were.
C14_NonAuthorEditDeleteRejected == [][C14_ForeignMessageStep]_vars

\* C14 witness: an edit and a delete of somebody else's message have both
\* been refused.
C14_Witness ==
  \E t1, t2 \in TaskIds :
    /\ task[t1].op = "editMessage" /\ task[t1].status = "Forbidden"
    /\ task[t2].op = "deleteMessage" /\ task[t2].status = "Forbidden"
    /\ \E msg \in messages : msg.id = task[t1].m /\ msg.userId # task[t1].u

\* A handler starts for an inbound event in this step, in task t.
HandlerStarts(t) == task[t].pc = "idle" /\ task'[t].pc # "idle"

C15_HandlerStartStep ==
  \A t \in TaskIds : HandlerStarts(t) => conn[task'[t].k].token = "good"

\* C15: a connection whose handshake carries no token, or a token that
\* verifyToken rejects, is disconnected before any inbound event from it is
\* processed: no sendMessage, joinConversation, typing, messagesRead,
\* editMessage or deleteMessage handler runs for it.
C15_NoHandlerBeforeAuthentication == [][C15_HandlerStartStep]_vars

\* Socket k's handshake has failed or is failing: the client sent no token or
\* one that verifyToken rejects.
FailedHandshake(cn) == cn.state # "new" /\ cn.token \in {"none", "bad"}

C16_FailedHandshakeStep ==
  \A k \in ConnIds :
    (conn'[k] # conn[k] /\ FailedHandshake(conn'[k])) =>
      /\ conn'[k].rooms = {}
      /\ conn'[k].userId = Undefined
      /\ UNCHANGED <<events, isOnline, lastSeen>>

\* C16: when the handshake fails (no token, or verifyToken throws) the
\* connection is never joined to a room, no userStatusChanged is emitted on
\* the connect or on the disconnect that follows, and no user's presence
\* record is modified.
C16_FailedHandshakeLeavesNoTrace == [][C16_FailedHandshakeStep]_vars

\* C16 witness: a socket without a token and a socket with a rejected token
\* have both been closed by the server with their handlers finished.
C16_Witness ==
  \E k1, k2 \in ConnIds :
    /\ conn[k1].state = "closed" /\ conn[k1].token = "none" /\ conn[k1].hc = "done"
    /\ conn[k2].state = "closed" /\ conn[k2].token = "bad" /\ conn[k2].hc = "done"
    /\ conn[k2].hcAtClose = "verify" /\ conn[k2].hd = "done"

\* The step in which isParticipant answers task t's joinConversation.
JoinChecked(t) ==
  task[t].op = "joinConversation" /\ task[t].pc = "check" /\ task'[t].pc # "check"

C17_JoinStep ==
  \A t \in TaskIds :
    /\ JoinChecked(t) =>
         IF IsParticipant(task[t].c, task[t].u)
         THEN ConvRoom(task[t].c) \in conn'[task[t].k].rooms
         ELSE /\ task'[t].pc = "done" /\ task'[t].status = "error"
              /\ task'[t].result = <<>>
              /\ UNCHANGED conn
    /\ (task[t].op = "joinConversation" /\ task[t].pc = "history" /\ task'[t].pc = "done") =>
         /\ task[t].isMember
         /\ task'[t].result = GetMessagesByConversation(task[t].c, DefaultLimit, DefaultPage)
    /\ (task[t].op = "joinConversation" /\ task[t].status = "error") => task'[t] = task[t]

\* C17: joinConversation subscribes the connection to room conversation_<c>
\* and returns the first page of c's messages only if the connection's user
\* is a participant of c when the check is made; for a non-participant it
\* returns an error, does not subscribe and returns no messages.
C17_JoinOnlyForParticipants == [][C17_JoinStep]_vars

\* C17 witness: one join was refused and left its socket outside the room,
\* another returned the history to a participant now in the room.
C17_Witness ==
  \E t1, t2 \in TaskIds :
    /\ task[t1].op = "joinConversation" /\ task[t1].status = "error"
    /\ ConvRoom(task[t1].c) \notin conn[task[t1].k].rooms
    /\ task[t2].op = "joinConversation" /\ task[t2].status = "ok"
    /\ task[t2].result # <<>>
    /\ ConvRoom(task[t2].c) \in conn[task[t2].k].rooms

\* C18: every externally reachable path that calls getMessagesByConversation
\* first verifies that the caller is a participant: a non-participant never
\* obtains the messages of a conversation.
C18_MessagesOnlyToParticipants ==
  (ret.op = "getMessages" /\ ret.messages # <<>>) => IsParticipant(ret.c, ret.caller)

\* The step in which the deleteConversation of task t, called by a
\* participant who held admin, commits with participants remaining.
AdminLeftCommits(t) ==
  /\ task[t].op = "deleteConversation"
  /\ task[t].pc = "commit" /\ task'[t].pc = "done"
  /\ task[t].wasAdmin /\ ~task[t].cascade

C19_RotationStep ==
  \A t \in TaskIds :
    AdminLeftCommits(t) =>
      LET before == participants[task[t].c]
          after == participants'[task[t].c]
          stay == {i \in DOMAIN before : before[i].userId # task[t].u}
          oldest == CHOOSE i \in stay : \A j \in stay : i <= j
      IN /\ stay # {}
         /\ \A i \in stay : \E j \in DOMAIN after :
              /\ after[j].userId = before[i].userId
              /\ after[j].isAdmin = (before[i].isAdmin \/ i = oldest)
         /\ Len(after) = Cardinality(stay)

\* C19: when the admin leaves a group through deleteConversation and
\* participants remain, the participant promoted is the remaining one with
\* the earliest join time at that moment, and no other participant's admin
\* flag changes.
C19_OldestRemainingPromoted == [][C19_RotationStep]_vars

\* C19 witness: admin 1 has left a group of three and user 2, the older of
\* the two who remain, is the admin.
C19_Witness ==
  \E t \in TaskIds : \E c \in ConvIds :
    /\ task[t].op = "deleteConversation" /\ task[t].status = "left"
    /\ task[t].u = 1 /\ task[t].c = c
    /\ Len(participants[c]) = 2
    /\ participants[c][1].userId = 2 /\ participants[c][1].isAdmin
    /\ participants[c][2].userId = 3 /\ ~participants[c][2].isAdmin

\* C20: every existing private (non-group) conversation has exactly two
\* distinct participants, after any sequence of
\* findOrCreatePrivateConversation, deleteConversation, removeParticipant
\* and addParticipant calls.
C20_PrivateHasTwoParticipants ==
  \A cv \in conversations :
    ~cv.isGroup =>
      /\ Len(participants[cv.id]) = 2
      /\ participants[cv.id][1].userId # participants[cv.id][2].userId

\* The rows of conversation c that belong to user u.
RowsOf(rows, u) == {i \in DOMAIN rows : rows[i].userId = u}

C21_CreateGroupStep ==
  \A a \in Users : \A ids \in SeqsUpTo(Users, MaxIds) :
    CreateGroupConversation(a, ids) =>
      /\ Len(ids) = 0 => (ret'.status = "BadRequest" /\ UNCHANGED dbVars)
      /\ ret'.status = "created" =>
           LET rows == participants'[ret'.id] IN
           /\ Len(ids) > 0
           /\ Cardinality(RowsOf(rows, a)) = 1
           /\ \A i \in DOMAIN rows : rows[i].isAdmin <=> rows[i].userId = a
           /\ Len(rows) >= 2

\* C21: createGroupConversation fails with a validation error and creates
\* nothing when participantIds is empty; otherwise the created group holds
\* the creator exactly once, flagged admin, nobody else is admin, and the
\* group starts with at least two participants, for every list, one holding
\* only the creator's id included.
C21_GroupStartsWithCreatorAndAnother == [][C21_CreateGroupStep]_vars

C22_SelfConversationStep ==
  (ret'.op = "findOrCreatePrivate" /\ ret'.a = ret'.b) =>
    (ret'.status = "BadRequest" /\ UNCHANGED dbVars)

\* C22: findOrCreatePrivateConversation(u, u) fails with a validation error
\* for every user u and creates neither a conversation nor a participant row.
C22_NoConversationWithOneself == [][C22_SelfConversationStep]_vars

\* C22 witness: a call with both ids equal was refused after a private
\* conversation of that user had been created.
C22_Witness ==
  /\ ret.op = "findOrCreatePrivate" /\ ret.a = ret.b /\ ret.status = "BadRequest"
  /\ \E cv \in conversations : ~cv.isGroup /\ IsParticipant(cv.id, ret.a)

C23_AddParticipantStep ==
  \A c \in ConvIds : \A t, a \in Users :
    AddParticipant(c, t, a) =>
      /\ (ConvExists(c) /\ ~ConvRow(c).isGroup) =>
           (ret'.status = "BadRequest" /\ UNCHANGED dbVars)
      /\ (ConvExists(c) /\ ConvRow(c).isGroup
            /\ \A i \in RowsOf(participants[c], a) : ~participants[c][i].isAdmin) =>
           (ret'.status = "Forbidden" /\ UNCHANGED dbVars)
      /\ ret'.status = "ok" =>
           /\ participants'[c] = participants[c] \o <<[userId |-> t, isAdmin |-> FALSE]>>
           /\ RowsOf(participants[c], t) = {}
           /\ \A d \in ConvIds \ {c} : participants'[d] = participants[d]
           /\ UNCHANGED <<conversations, messages>>

\* C23: addParticipant fails with a validation error if the conversation is
\* private and with an authorization error if the requester is not an admin
\* of it, adding no participant row in either case; on success exactly one
\* non-admin row for the target is added.
C23_AddParticipantGuarded == [][C23_AddParticipantStep]_vars

\* C23 witness: an addParticipant has succeeded and the newest row of the
\* group is the non-admin it added.
C23_Witness ==
  /\ ret.op = "addParticipant" /\ ret.status = "ok"
  /\ Len(participants[ret.id]) >= 2
  /\ ~participants[ret.id][Len(participants[ret.id])].isAdmin

C24_RemoveParticipantStep ==
  \A c \in ConvIds : \A t, r \in Users :
    RemoveParticipant(c, t, r) =>
      /\ (RowsOf(participants[c], r) = {} \/ RowsOf(participants[c], t) = {}) =>
           (ret'.status = "NotFound" /\ UNCHANGED dbVars)
      /\ (/\ RowsOf(participants[c], r) # {} /\ RowsOf(participants[c], t) # {}
          /\ t # r
          /\ \A i \in RowsOf(participants[c], r) : ~participants[c][i].isAdmin) =>
           (ret'.status = "Forbidden" /\ UNCHANGED dbVars)

\* C24: removeParticipant fails with AuthorizationError if the requester is
\* neither the target nor an admin, and with NotFoundError if the requester
\* or the target is not a participant; the participant set is unchanged in
\* every failing case.
C24_RemoveParticipantErrors == [][C24_RemoveParticipantStep]_vars

\* An admin of group c other than t, and t a non-admin of it, with at least
\* two participants besides t.
AdminRemovesMember(c, t, r) ==
  /\ ConvExists(c) /\ ConvRow(c).isGroup
  /\ t # r
  /\ \E i \in RowsOf(participants[c], r) : participants[c][i].isAdmin
  /\ \E i \in RowsOf(participants[c], t) : ~participants[c][i].isAdmin
  /\ Len(participants[c]) >= 3

C25_RemoveMemberStep ==
  \A c \in ConvIds : \A t, r \in Users :
    (AdminRemovesMember(c, t, r) /\ RemoveParticipant(c, t, r)) =>
      /\ ret'.status = "ok"
      /\ RowsOf(participants'[c], t) = {}
      /\ Len(participants'[c]) = Len(participants[c]) - 1
      /\ \A i \in DOMAIN participants[c] :
           participants[c][i].userId # t =>
             \E j \in DOMAIN participants'[c] : participants'[c][j] = participants[c][i]
      /\ \A d \in ConvIds \ {c} : participants'[d] = participants[d]
      /\ UNCHANGED <<conversations, messages>>

\* C25: when an admin removes a non-admin participant from a group and at
\* least two members remain, only the target's participant row is removed:
\* the conversation still exists and its messages, its other participants
\* and their admin flags are unchanged.
C25_RemoveMemberTouchesOnlyTarget == [][C25_RemoveMemberStep]_vars

\* C25 witness: an admin has removed another member from a group that holds
\* a message, and two participants, the admin among them, remain.
C25_Witness ==
  /\ ret.op = "removeParticipant" /\ ret.status = "ok" /\ ret.a # ret.b
  /\ ConvExists(ret.id) /\ ConvRow(ret.id).isGroup
  /\ Len(participants[ret.id]) = 2
  /\ \E i \in RowsOf(participants[ret.id], ret.b) : participants[ret.id][i].isAdmin
  /\ \E msg \in messages : msg.conversationId = ret.id

C26_MarkReadStep ==
  ret'.op = "markRead" =>
    LET c == ret'.c
        u == ret'.caller
    IN /\ Cardinality(messages') = Cardinality(messages)
       /\ \A msg \in messages :
            [msg EXCEPT !.isRead = msg.isRead \/ (msg.conversationId = c /\ msg.userId # u)]
              \in messages'
       /\ UNCHANGED <<conversations, participants>>

\* C26: markAsRead(c, u) sets isRead on exactly the messages of c written by
\* somebody other than u that are unread; messages written by u, messages of
\* other conversations and every other field stay as they were.
C26_MarkAsReadFrame == [][C26_MarkReadStep]_vars

\* C26 witness: after a markAsRead the other participant's message in the
\* conversation is read while the caller's own message there and a message
\* of another conversation are still unread.
C26_Witness ==
  /\ ret.op = "markRead"
  /\ \E msg \in messages : msg.conversationId = ret.c /\ msg.userId # ret.caller /\ msg.isRead
  /\ \E msg \in messages : msg.conversationId = ret.c /\ msg.userId = ret.caller /\ ~msg.isRead
  /\ \E msg \in messages : msg.conversationId # ret.c /\ ~msg.isRead

\* The number of messages of conversation c newer than message m: its
\* position, from 0, in newest-first order.
NewerThan(c, m) ==
  Cardinality({x \in messages : x.conversationId = c /\ x.id > m.id})

PageIds(c, limit, page) ==
  LET rows == GetMessagesByConversation(c, limit, page) IN {rows[i].id : i \in DOMAIN rows}

C27_PageStep ==
  \A u \in {ret'.caller} \cap Users : \A c \in {ret'.c} \cap ConvIds :
  \A limit \in PageLimits : \A page \in Pages :
    (ret'.op = "getMessages" /\ GetMessages(u, c, limit, page)) =>
      LET rows == ret'.messages
          first == (page - 1) * limit
      IN /\ {rows[i].id : i \in DOMAIN rows} =
              {m.id : m \in {x \in messages : /\ x.conversationId = c
                                              /\ NewerThan(c, x) >= first
                                              /\ NewerThan(c, x) <= first + limit - 1}}
         /\ \A i \in DOMAIN rows :
              /\ rows[i].conversationId = c
              /\ NewerThan(c, rows[i]) = first + i - 1
         /\ \A other \in Pages \ {page} : PageIds(c, limit, other) \cap PageIds(c, limit, page) = {}

\* C27: getMessagesByConversation(c, limit, page) returns, of c's messages
\* sorted newest first, exactly those at positions (page-1)*limit to
\* (page-1)*limit + limit - 1; page 1 is the most recent page and the pages
\* of distinct page numbers do not overlap.
C27_PagesAreConsecutiveSlices == [][C27_PageStep]_vars

\* C27 witness: a request for the second page of size 1 returned the older
\* of the two messages of the conversation.
C27_Witness ==
  /\ ret.op = "getMessages"
  /\ Len(ret.messages) = 1
  /\ NewerThan(ret.c, ret.messages[1]) = 1

C28_PresenceWriteStep ==
  \A u \in Users :
    ((isOnline'[u] # isOnline[u] \/ lastSeen'[u] # lastSeen[u])
       /\ \E k \in ConnIds : LiveAs(k, u))
    => conn' # conn

\* C28: a user's presence (isOnline, lastSeen) is modified only by the
\* gateway's connect and disconnect handling: no other operation, logout in
\* particular, changes isOnline while the user still has live connections.
C28_PresenceWrittenOnlyByGateway == [][C28_PresenceWriteStep]_vars

C29_MessageStep ==
  /\ \A msg \in messages :
       (\A kept \in messages' : kept.id # msg.id) =>
         /\ \A cv \in conversations' : cv.id # msg.conversationId
         /\ participants'[msg.conversationId] = <<>>
  /\ (/\ ret'.op = "deleteMessage" /\ ret'.status = "ok"
      /\ ret'.c \in MsgIds /\ ret'.caller \in Users
      /\ DeleteMessage(ret'.c, ret'.caller)) =>
       /\ Cardinality(messages') = Cardinality(messages)
       /\ \A msg \in messages :
            IF msg.id = ret'.c THEN [msg EXCEPT !.isDeleted = TRUE] \in messages'
            ELSE msg \in messages'

\* C29: deleteMessage by the author only sets isDeleted: the row keeps
\* existing with its stored content, and a message row leaves storage only
\* through the cascade that deletes its whole conversation when the last
\* participant leaves.
C29_SoftDeleteOnly == [][C29_MessageStep]_vars

\* C29 witness: a message deleted by its author is still stored with the
\* content it was sent with.
C29_Witness ==
  /\ ret.op = "deleteMessage" /\ ret.status = "ok"
  /\ \E msg \in messages : msg.id = ret.c /\ msg.isDeleted /\ msg.content = "hi"

\* C30: no participant of a private conversation ever holds the admin flag:
\* a leave from a private conversation does not promote the participant who
\* remains, and an addParticipant that succeeded was on a group conversation.
C30_PrivateHasNoAdmin ==
  /\ \A cv \in conversations :
       ~cv.isGroup =>
         \A i \in 1..Len(participants[cv.id]) : ~participants[cv.id][i].isAdmin
  /\ (ret.op = "addParticipant" /\ ret.status = "ok") =>
       (ConvExists(ret.id) /\ ConvRow(ret.id).isGroup)

\* C30 witness: one participant has left a private conversation and the other
\* remains in it.
C30_Witness ==
  /\ ret.op = "deleteConversation" /\ ret.status = "left"
  /\ ConvExists(ret.id) /\ ~ConvRow(ret.id).isGroup
  /\ Len(participants[ret.id]) = 1

\* C31: a message is persisted in conversation c only if its sender is a
\* participant of c at the moment of the insert, also when the sender is
\* being removed while the sendMessage handler runs.
C31_PersistedOnlyByParticipant ==
  [][\A msg \in messages' :
       (\A old \in messages : old.id # msg.id) =>
         IsParticipant(msg.conversationId, msg.userId)]_vars

\* C32: once no sendMessage is being handled, the lastMessageId of every
\* conversation is the id of its most recently created message.
C32_LastMessageIsNewestAfterSends ==
  (\A t \in TaskIds : ~SendActive(t)) =>
    \A cv \in conversations : \A msg \in messages :
      msg.conversationId = cv.id => msg.id <= cv.lastMessageId

\* C33: every socket subscribed to the room of conversation c belongs to a
\* user who is a participant of c, and c exists.
C33_RoomMembersAreParticipants ==
  \A k \in ConnIds : \A c \in ConvIds :
    (conn[k].state = "open" /\ ConvRoom(c) \in conn[k].rooms) =>
      (ConvExists(c) /\ IsParticipant(c, conn[k].userId))

\* The events a step appends to the log.
NewEvents == {events'[i] : i \in (Len(events) + 1)..Len(events')}

FailedOwnerCheck(t) ==
  /\ task[t].op \in {"editMessage", "deleteMessage"}
  /\ task[t].pc = "done"
  /\ task[t].status \in {"NotFound", "Forbidden", "exception"}

C34_EditDeleteStep ==
  /\ \A e \in NewEvents :
       e.kind \in {"messageUpdated", "messageDeleted"} =>
         \E msg \in messages :
           /\ msg.id = e.payload.messageId
           /\ msg.userId = conn[e.from].userId
           /\ IF e.kind = "messageUpdated"
              THEN msg.edited /\ msg.content = e.payload.newText
              ELSE msg.isDeleted
  /\ \A t \in TaskIds :
       (FailedOwnerCheck(t)' /\ ~FailedOwnerCheck(t)) =>
         (events' = events /\ messages' = messages)

\* C34: messageUpdated / messageDeleted is emitted only after the storage
\* update of that message for that caller has succeeded; a handler whose
\* editMessage or deleteMessage fails (message missing, caller not the
\* author) emits nothing and writes nothing.
C34_BroadcastOnlyAfterStorageSuccess == [][C34_EditDeleteStep]_vars

\* C34 witness: one edit or delete was refused and emitted nothing, while
\* another handler's update succeeded and was broadcast.
C34_Witness ==
  /\ \E t \in TaskIds : FailedOwnerCheck(t)
  /\ \E t \in TaskIds :
       task[t].op \in {"editMessage", "deleteMessage"} /\ task[t].status = "ok"
  /\ Len(events) = 1
  /\ events[1].kind \in {"messageUpdated", "messageDeleted"}

C35_ReadStep ==
  /\ \A msg \in messages : \A now \in messages' :
       (now.id = msg.id /\ now.isRead # msg.isRead) =>
         \E t \in TaskIds :
           /\ task[t].op = "messagesRead" /\ task[t].pc = "mark"
           /\ task[t].c = msg.conversationId
           /\ IsParticipant(task[t].c, task[t].u)
  /\ \A e \in NewEvents :
       e.kind = "messagesMarkedAsRead" =>
         IsParticipant(e.payload.conversationId, e.payload.readBy)

\* C35: isRead of a message of conversation c changes only through a
\* messagesRead request of a participant of c; the request of a
\* non-participant changes no message and emits no messagesMarkedAsRead.
C35_ReadOnlyByParticipants == [][C35_ReadStep]_vars

\* C36: newNotification reaches only sockets authenticated as the receiver
\* named by receiverId, and only when that receiver is a participant of the
\* conversation the message was sent to.
C36_NotificationOnlyToParticipantReceiver ==
  \A i \in DOMAIN events :
    events[i].kind = "newNotification" =>
      \A k \in events[i].to :
        /\ events[i].room = UserRoom(conn[k].userId)
        /\ IsParticipant(events[i].payload.conversationId, conn[k].userId)

\* Task e edited and task d deleted the same message, both as its author,
\* and both have returned.
EditAndDeleteDone(e, d) ==
  /\ task[e].op = "editMessage" /\ task[e].pc = "done" /\ task[e].status = "ok"
  /\ task[d].op = "deleteMessage" /\ task[d].pc = "done" /\ task[d].status = "ok"
  /\ task[e].m = task[d].m

\* C37: after an editMessage and a deleteMessage of the author on the same
\* message have both completed, whatever the order of their reads and
\* writes, the message is stored with the edit's text and isDeleted true.
C37_EditDeleteCommute ==
  \A e, d \in TaskIds :
    EditAndDeleteDone(e, d) =>
      \E msg \in messages :
        msg.id = task[e].m /\ msg.content = task[e].text /\ msg.isDeleted

\* C37 witness: an edit and a delete of the same message have both completed.
C37_Witness == \E e, d \in TaskIds : EditAndDeleteDone(e, d)

\* C38: a message with isDeleted true keeps it for as long as the row
\* exists, whichever handler runs.
C38_SoftDeleteIrreversible ==
  [][\A msg \in messages : \A now \in messages' :
       (now.id = msg.id /\ msg.isDeleted) => now.isDeleted]_vars

\* C38 witness: a message was deleted, the deletion was broadcast, and an
\* edit of the same message was broadcast after it; the row is still deleted.
C38_Witness ==
  /\ Len(events) = 2
  /\ events[1].kind = "messageDeleted" /\ events[2].kind = "messageUpdated"
  /\ events[1].payload.messageId = events[2].payload.messageId
  /\ \E msg \in messages :
       msg.id = events[1].payload.messageId /\ msg.isDeleted /\ msg.edited

\* The open sockets subscribed to room.
Subscribed(room) == {k \in ConnIds : conn[k].state = "open" /\ room \in conn[k].rooms}

C39_BroadcastStep ==
  \A e \in NewEvents :
    e.kind \in {"userTyping", "messagesMarkedAsRead"} =>
      /\ e.to = Subscribed(e.room) \ {e.from}
      /\ \E t \in TaskIds :
           /\ task'[t].pc = "done" /\ task[t].pc # "done"
           /\ task'[t].k = e.from
           /\ e.room = ConvRoom(task'[t].c)

\* C39: userTyping and messagesMarkedAsRead reach every socket subscribed to
\* the conversation's room at that moment except the socket that sent the
\* event, which never gets its own event back.
C39_NoEchoToSender == [][C39_BroadcastStep]_vars

\* C39 witness: a socket subscribed to a conversation's room sent a typing
\* event for that conversation and is not among its receivers.
C39_Witness ==
  \E i \in DOMAIN events :
    /\ events[i].kind = "userTyping"
    /\ events[i].room \in conn[events[i].from].rooms
    /\ events[i].from \notin events[i].to

====
